---- MODULE Spec2Model ----
(***************************************************************************)
(* Model of the scene pipeline of video_downloader:                        *)
(*   autocode.py  range notation, continuation windows, image choice,      *)
(*                glue.csv, labeling loop over the institutions            *)
(*   glue.py      concatenation of glue records and clean-up, run twice    *)
(*   inference.py glue_stick, video_timestamps and rows over the sites     *)
(*   splitfix.py  interactive merge of neighbouring scenes                 *)
(* Text is modelled as a sequence of one-character strings, so formatting  *)
(* and parsing are computed character by character as the code does.       *)
(***************************************************************************)
EXTENDS Integers, Sequences, FiniteSets, TLC

VARIABLES
    rpc,        \* range round trip: position
    rNums,      \* list handed to compress_ints
    rStr,       \* range string (output of compress_ints or input of expand_range_str)
    rOut,       \* result of expand_range_str
    rBack       \* compress_ints applied to the expanded list

VARIABLES
    cpc,        \* continuation_scenes called on its own: position
    cExisting,  \* argument existing
    cBase,      \* argument base
    cNext,      \* argument next_base (None or Some)
    cMax,       \* argument max_scene (None or Some)
    cOut        \* the list returned

VARIABLES
    apc,            \* autocode main: position in the institution's iteration
    aRows,          \* clip numbers of the institution's spreadsheet rows, in file order
    aIsDir,         \* os.path.isdir(scenes_dir)
    aDisk,          \* n such that <scenes_dir>/scene_<n>.mp4 exists
    aShots,         \* n such that <scenes_dir>/scene_<n>_screenshot.jpg exists
    existing_set,   \* main: existing_set
    max_scene,      \* main: max_scene (None or Some)
    bases,          \* main: bases
    next_bases,     \* main: next_bases
    cont_lists,     \* main: cont_lists
    cont_strs,      \* main: cont_strs
    img_paths,      \* main: img_paths
    aGlue           \* lines of <dom_dir>/glue.csv

VARIABLES
    domain,         \* main: index in Domains of the institution being processed (0: none yet)
    no_llm,         \* main: args.no_llm
    llm_outputs,    \* main: llm_outputs
    outstanding,    \* labeling requests sent to the endpoint and not yet answered
    caught,         \* main: the exception caught for the row labelled last (None or Some)
    out_frames,     \* main: out_frames
    out_xlsx        \* the LLM Output column of the consolidated workbook, once written

VARIABLES
    gpc,            \* glue.py, one site: position
    gDisk,          \* n such that <video_subdirectory>/scene_<n>.mp4 exists
    gShots,         \* n such that <video_subdirectory>/scene_<n>_screenshot.jpg exists
    gRead,          \* rows of glue.csv read so far
    scene_numbers,  \* glue loop: scene_numbers of the row read last
    gRc             \* glue loop: result.returncode of the row read last (None or Some)

VARIABLES
    glue_csv,       \* glue.py run twice: the rows of glue.csv
    gRun,           \* glue.py run twice: the run in progress (1 or 2)
    gFirstFailed,   \* some concatenation of the first run returned nonzero
    gAfterFirst     \* the scene files the first run left

VARIABLES
    ipc,               \* inference.py: position
    iSite,             \* inference.py: index in Sites of the domain being analysed (0: none yet)
    iGlue,             \* the rows of glue.csv in the working directory
    iVideos,           \* n such that scene_<n>.mp4 is in the domain's scenes directory
    iImages,           \* n such that scene_<n>_screenshot.jpg is in that directory
    iSeen,             \* the images of the domain the loop has gone through
    glue_stick,        \* inference.py: glue_stick, as its entries in insertion order
    video_timestamps,  \* inference.py: video_timestamps
    data               \* inference.py: data

VARIABLES
    fpc,        \* splitfix.py, one site: position
    fDisk,      \* n such that <scenes>/scene_<n>.mp4 exists
    fShots,     \* n such that <scenes>/scene_<n>_screenshot.jpg exists
    fVideos,    \* process_folder: the scene numbers listed in sorted_videos
    fProc,      \* merge_files: process_videos of the last call
    fFile,      \* merge_files: file of the last call (None or Some)
    fRc,        \* merge_files: return code of the concatenation (None or Some)
    fCount,     \* look-ups made so far
    fSite,      \* main loop: index in config.sites of the site being processed
    fLog,       \* what has been printed to the operator, in order
    script,     \* which of split.py and subsplit.py is run
    operation,  \* split.py: the configured operation
    spc,        \* split.py: position
    sSite,      \* split.py: index in config.sites of the site being processed
    sIsDir,     \* split.py: the scenes directory of the site exists
    sScenes,    \* split.py: scene number -> what scene_<n>.mp4 holds
    sFiles,     \* split.py: the kinds of the files listed in the institution folder
    sFile,      \* split.py: index in sFiles of the file being handled
    timestamps, \* process_video: the boundaries parsed from the scene log
    sDone,      \* split.py: what the run has done to the disk so far
    npc,        \* scan.py: position
    nRun,       \* scan.py: how many times the script has been started
    nRow,       \* scan.py: index of the spreadsheet row being processed
    nUsable,    \* scan.py: row -> the row has a video source, is primary and is .edu
    nFiles,     \* scan.py: row -> None, or Some of the file at its video path
    nLeft,      \* scan.py: chunks of the response not yet written
    kpc,        \* second_codes.py: position
    avail,      \* second_codes.py: stratum -> rows of scenes_df in the stratum
    nat_counts, \* second_codes.py: stratum -> rows of the national file in the stratum
    sample_n,   \* second_codes.py: sample_n
    alloc,      \* second_codes.py: stratum -> count allocated (0 when it has no key)
    remaining,  \* second_codes.py: remaining
    selected,   \* second_codes.py: stratum -> rows sampled from the stratum
    flagged     \* second_codes.py: rows with Second Coder = True

rangeVars == <<rpc, rNums, rStr, rOut, rBack>>

glueVars == <<gpc, gDisk, gShots, gRead, scene_numbers, gRc>>

fixVars == <<fpc, fDisk, fShots, fVideos, fProc, fFile, fRc, fCount, fSite, fLog>>

contVars == <<cpc, cExisting, cBase, cNext, cMax, cOut>>

autoVars == <<apc, aRows, aIsDir, aDisk, aShots, existing_set, max_scene, bases, next_bases,
              cont_lists, cont_strs, img_paths, aGlue>>

rerunVars == <<glue_csv, gRun, gFirstFailed, gAfterFirst>>

inferVars == <<ipc, iSite, iGlue, iVideos, iImages, iSeen, glue_stick, video_timestamps, data>>

mainVars == <<domain, no_llm, llm_outputs, outstanding, caught, out_frames, out_xlsx>>

splitVars == <<script, operation, spc, sSite, sIsDir, sScenes, sFiles, sFile, timestamps, sDone>>

\* the programs modelled further down
scanVars == <<npc, nRun, nRow, nUsable, nFiles, nLeft>>

codesVars == <<kpc, avail, nat_counts, sample_n, alloc, remaining, selected, flagged>>

lateVars == <<splitVars, scanVars, codesVars>>

earlyVars == <<rangeVars, contVars, autoVars, glueVars, fixVars, mainVars, rerunVars, inferVars>>

vars == <<earlyVars, lateVars>>

\* what the steps of one program leave alone: the state of the others
notRange == <<contVars, autoVars, glueVars, fixVars, mainVars, rerunVars, inferVars,
    lateVars>>

notCont == <<rangeVars, autoVars, glueVars, fixVars, mainVars, rerunVars, inferVars,
    lateVars>>

notAuto == <<rangeVars, contVars, glueVars, fixVars, mainVars, rerunVars, inferVars,
    lateVars>>

notGlue == <<rangeVars, contVars, autoVars, fixVars, mainVars, rerunVars, inferVars,
    lateVars>>

notFix == <<rangeVars, contVars, autoVars, glueVars, mainVars, rerunVars, inferVars,
    lateVars>>

notMain == <<rangeVars, contVars, glueVars, fixVars, rerunVars, inferVars,
    lateVars>>

notRerun == <<rangeVars, contVars, autoVars, fixVars, mainVars, inferVars,
    lateVars>>

notInfer == <<rangeVars, contVars, autoVars, glueVars, fixVars, mainVars, rerunVars,
    lateVars>>

notSplit == <<earlyVars, scanVars, codesVars>>

notScan == <<earlyVars, splitVars, codesVars>>

notCodes == <<earlyVars, splitVars, scanVars>>

\* ------------------------------------------------------------------ bounds
MaxLen == 3          \* longest list handed to compress_ints
NegSpan == 2         \* integers range from -NegSpan ...
MaxInt == 11         \* ... to MaxInt
MaxTokInt == 3       \* largest integer in a hand-written range string
MaxTokens == 2       \* most tokens in a hand-written range string
CMaxScene == 4       \* scene numbers handed to continuation_scenes on its own
AMaxScene == 4       \* scene and clip numbers of the institution autocode processes
MaxRows == 2         \* most spreadsheet rows of the institution
GMaxScene == 3       \* scene numbers of the site glue.py processes
MaxSources == 2      \* most cells after the destination in a glue.csv row
MaxRecords == 2      \* most rows of glue.csv
FMaxScene == 4       \* scene numbers of the site splitfix.py processes
MaxLookups == 2      \* most numbers the operator enters in splitfix.py
RerunMaxScene == 2   \* scene numbers of the site glue.py processes twice
RerunMaxSources == 1 \* most cells after the destination in a row of that glue.csv
RerunMaxRecords == 2 \* most rows of that glue.csv
InferMaxScene == 2   \* scene numbers of the sites inference.py analyses
InferMaxSources == 1 \* most cells after the destination in a row of its glue.csv
InferMaxRecords == 1 \* most rows of its glue.csv
MainMaxClip == 1     \* clip numbers of the institutions of a whole run of main
MainMaxRows == 2     \* most spreadsheet rows of an institution in a whole run of main
SMaxTime == 2        \* split.py: latest boundary timestamp of a video
SMaxCuts == 2        \* split.py: most boundaries found in a video
SOldScenes == 1      \* split.py: highest scene number left by an earlier run
ScanMaxChunks == 2   \* scan.py: most chunks in a response
ScanRuns == 2        \* scan.py: how many times the script is started
CodesMany == 9       \* second_codes.py: a stratum holds 0, 1, 2, CodesMany or twice as many rows
CodesMaxNat == 3     \* second_codes.py: most rows of the national file in a stratum
SampleRatePercent == 10  \* SAMPLE_RATE = 0.10

\* ------------------------------------------------------------------ text
Digits == <<"0", "1", "2", "3", "4", "5", "6", "7", "8", "9">>

IsDigit(c) == \E d \in 1..10 : Digits[d] = c

DigitVal(c) == (CHOOSE d \in 1..10 : Digits[d] = c) - 1

RECURSIVE NatToStr(_)
NatToStr(n) ==
    IF n < 10 THEN <<Digits[n + 1]>>
    ELSE NatToStr(n \div 10) \o <<Digits[(n % 10) + 1]>>

\* f"{n}" for an int
FormatInt(n) == IF n < 0 THEN <<"-">> \o NatToStr(0 - n) ELSE NatToStr(n)

RECURSIVE DigitsToNat(_, _)
DigitsToNat(s, acc) ==
    IF s = <<>> THEN acc
    ELSE DigitsToNat(Tail(s), acc * 10 + DigitVal(Head(s)))

RECURSIVE Strip(_)
\* str.strip(): leading and trailing blanks removed
Strip(s) ==
    IF s = <<>> THEN s
    ELSE IF Head(s) = " " THEN Strip(Tail(s))
    ELSE IF s[Len(s)] = " " THEN Strip(SubSeq(s, 1, Len(s) - 1))
    ELSE s

AllDigits(s) == s # <<>> /\ \A i \in 1..Len(s) : IsDigit(s[i])

\* int(s): blanks stripped, an optional sign, then one or more digits;
\* anything else raises ValueError (ok = FALSE)
ParseInt(s) ==
    LET t == Strip(s) IN
    IF AllDigits(t) THEN [ok |-> TRUE, val |-> DigitsToNat(t, 0)]
    ELSE IF t # <<>> /\ Head(t) \in {"-", "+"} /\ AllDigits(Tail(t))
         THEN [ok |-> TRUE,
               val |-> IF Head(t) = "-" THEN 0 - DigitsToNat(Tail(t), 0)
                       ELSE DigitsToNat(Tail(t), 0)]
    ELSE [ok |-> FALSE, val |-> 0]

Contains(s, c) == \E i \in 1..Len(s) : s[i] = c

FirstIndex(s, c) == CHOOSE i \in 1..Len(s) : s[i] = c /\ \A j \in 1..(i - 1) : s[j] # c

RECURSIVE Split(_, _)
\* s.split(c): the pieces between the separators, empty pieces included
Split(s, c) ==
    IF ~Contains(s, c) THEN <<s>>
    ELSE LET i == FirstIndex(s, c) IN
         <<SubSeq(s, 1, i - 1)>> \o Split(SubSeq(s, i + 1, Len(s)), c)

\* s.split(c, 1) of a string that contains c
SplitOnce(s, c) ==
    LET i == FirstIndex(s, c) IN <<SubSeq(s, 1, i - 1), SubSeq(s, i + 1, Len(s))>>

RECURSIVE Join(_, _)
\* c.join(parts)
Join(parts, c) ==
    IF parts = <<>> THEN <<>>
    ELSE IF Len(parts) = 1 THEN parts[1]
    ELSE parts[1] \o <<c>> \o Join(Tail(parts), c)

\* ------------------------------------------------------------------ lists
Range(s) == {s[i] : i \in 1..Len(s)}

Min(S) == CHOOSE x \in S : \A y \in S : x <= y

Max(S) == CHOOSE x \in S : \A y \in S : y <= x

RECURSIVE SortedSet(_)
\* sorted(set(...)): the members of S in ascending order
SortedSet(S) ==
    IF S = {} THEN <<>>
    ELSE <<Min(S)>> \o SortedSet(S \ {Min(S)})

\* range(a, b + 1) as a list
IntRangeList(a, b) == [i \in 1..(IF b >= a THEN b - a + 1 ELSE 0) |-> a + i - 1]

\* ------------------------------------------------------------------ autocode.py
\* mutant: a singleton run is rendered as a range too
RunText_always_range(start, prev) == FormatInt(start) \o <<"-">> \o FormatInt(prev)

\* the text of one run: f"{start}-{prev}" if start != prev else f"{start}"
RunText(start, prev) ==
    IF start # prev THEN FormatInt(start) \o <<"-">> \o FormatInt(prev)
    ELSE FormatInt(start)

RECURSIVE CompressLoop(_, _, _, _, _)
\* the for loop of compress_ints over nums[1:], then the final append
CompressLoop(nums, i, start, prev, out) ==
    IF i > Len(nums) THEN Append(out, RunText(start, prev))
    ELSE IF nums[i] = prev + 1 THEN CompressLoop(nums, i + 1, start, nums[i], out)
    ELSE CompressLoop(nums, i + 1, nums[i], nums[i], Append(out, RunText(start, prev)))

\* mutant: the list is not sorted and de-duplicated before the loop
compress_ints_unsorted(nums) ==
    IF nums = <<>> THEN <<>>
    ELSE Join(CompressLoop(nums, 2, nums[1], nums[1], <<>>), ",")

compress_ints(nums) ==
    IF nums = <<>> THEN <<>>
    ELSE LET s == SortedSet(Range(nums)) IN
         Join(CompressLoop(s, 2, s[1], s[1], <<>>), ",")

\* one token of expand_range_str; err is TRUE when int() raises ValueError
ExpandPart(raw) ==
    LET part == Strip(raw) IN
    IF part = <<>> THEN [err |-> FALSE, val |-> <<>>]
    ELSE IF Contains(part, "-")
         THEN LET ab == SplitOnce(part, "-")
                  a == ParseInt(ab[1])
                  b == ParseInt(ab[2])
              IN IF a.ok /\ b.ok
                 THEN [err |-> FALSE, val |-> IntRangeList(a.val, b.val)]
                 ELSE [err |-> TRUE, val |-> <<>>]
    ELSE LET n == ParseInt(part) IN
         IF n.ok THEN [err |-> FALSE, val |-> <<n.val>>]
         ELSE [err |-> TRUE, val |-> <<>>]

RECURSIVE ExpandParts(_, _)
ExpandParts(parts, out) ==
    IF parts = <<>> THEN [err |-> FALSE, val |-> out]
    ELSE LET p == ExpandPart(Head(parts)) IN
         IF p.err THEN [err |-> TRUE, val |-> <<>>]
         ELSE ExpandParts(Tail(parts), out \o p.val)

\* mutant: the last expanded integer is dropped (range(a, b) for the last range)
expand_range_str_open(rng) ==
    IF rng = <<>> THEN [err |-> FALSE, val |-> <<>>]
    ELSE LET r == ExpandParts(Split(rng, ","), <<>>) IN
         IF r.err \/ Len(r.val) < 2 THEN r
         ELSE [err |-> FALSE, val |-> SubSeq(r.val, 1, Len(r.val) - 1)]

expand_range_str(rng) ==
    IF rng = <<>> THEN [err |-> FALSE, val |-> <<>>]
    ELSE ExpandParts(Split(rng, ","), <<>>)

\* Optional[int]: None, or Some(n)
None == <<>>

Some(n) == <<n>>

\* list_existing_scene_numbers: [] when the directory is missing, else the sorted
\* scene numbers of its scene files
list_existing_scene_numbers(isdir, disk) == IF ~isdir THEN <<>> ELSE SortedSet(disk)

\* mutant: the window is not filtered by the files that exist
continuation_scenes_unfiltered(existing, base, next_base, max_scn) ==
    IF existing = {} \/ max_scn = None THEN <<>>
    ELSE LET start == base + 1
             end == IF next_base # None THEN next_base[1] - 1 ELSE max_scn[1]
         IN IntRangeList(start, end)

\* mutant: the window of the last row stops one short of max_scene
continuation_scenes_short_end(existing, base, next_base, max_scn) ==
    IF existing = {} \/ max_scn = None THEN <<>>
    ELSE LET start == base + 1
             end == IF next_base # None THEN next_base[1] - 1 ELSE max_scn[1] - 1
         IN IF end < start THEN <<>>
            ELSE SelectSeq(IntRangeList(start, end), LAMBDA n : n \in existing)

\* mutant: a next base that is not above the base is taken as absent
continuation_scenes_stale_fence(existing, base, next_base, max_scn) ==
    IF existing = {} \/ max_scn = None THEN <<>>
    ELSE LET start == base + 1
             end == IF next_base # None /\ next_base[1] > base THEN next_base[1] - 1
                    ELSE max_scn[1]
         IN IF end < start THEN <<>>
            ELSE SelectSeq(IntRangeList(start, end), LAMBDA n : n \in existing)

\* mutant: the window ignores the next row's base and always runs to max_scene
continuation_scenes_no_fence(existing, base, next_base, max_scn) ==
    IF existing = {} \/ max_scn = None THEN <<>>
    ELSE LET start == base + 1
             end == max_scn[1]
         IN IF end < start THEN <<>>
            ELSE SelectSeq(IntRangeList(start, end), LAMBDA n : n \in existing)

continuation_scenes(existing, base, next_base, max_scn) ==
    IF existing = {} \/ max_scn = None THEN <<>>
    ELSE LET start == base + 1
             end == IF next_base # None THEN next_base[1] - 1 ELSE max_scn[1]
         IN IF end < start THEN <<>>
            ELSE SelectSeq(IntRangeList(start, end), LAMBDA n : n \in existing)

\* the path <scenes_dir>/scene_<n>_screenshot.jpg, named by its scene number
scene_jpg_path(n) == <<n>>

\* os.path.exists of a screenshot path
PathExists(shots, p) == p # <<>> /\ p[1] \in shots

\* mutant: falls back to any continuation scene that has a screenshot
choose_image_for_clip_any(shots, base, cont_list) ==
    IF PathExists(shots, scene_jpg_path(base)) THEN scene_jpg_path(base)
    ELSE IF \E i \in 1..Len(cont_list) : cont_list[i] \in shots
         THEN scene_jpg_path(Min({cont_list[i] : i \in {j \in 1..Len(cont_list) : cont_list[j] \in shots}}))
    ELSE None

\* choose_image_for_clip: the chosen path, or None
choose_image_for_clip(shots, base, cont_list) ==
    IF PathExists(shots, scene_jpg_path(base)) THEN scene_jpg_path(base)
    ELSE IF cont_list # <<>> /\ PathExists(shots, scene_jpg_path(cont_list[1]))
         THEN scene_jpg_path(cont_list[1])
    ELSE None

\* mutant: a row whose continuation list is empty gets no line
write_glue_csv_skip_empty(bs, conts) ==
    LET lines == [i \in 1..(IF Len(bs) <= Len(conts) THEN Len(bs) ELSE Len(conts)) |->
                     IF conts[i] # <<>>
                     THEN FormatInt(bs[i]) \o <<",">> \o compress_ints(conts[i])
                     ELSE <<>>]
    IN SelectSeq(lines, LAMBDA l : l # <<>>)

\* mutant: the comma and the compressed continuation are written on every line
write_glue_csv_always_comma(bs, conts) ==
    [i \in 1..(IF Len(bs) <= Len(conts) THEN Len(bs) ELSE Len(conts)) |->
        FormatInt(bs[i]) \o <<",">> \o compress_ints(conts[i])]

\* write_glue_csv: one line per (base, cont) pair
write_glue_csv(bs, conts) ==
    [i \in 1..(IF Len(bs) <= Len(conts) THEN Len(bs) ELSE Len(conts)) |->
        IF conts[i] # <<>> THEN FormatInt(bs[i]) \o <<",">> \o compress_ints(conts[i])
        ELSE FormatInt(bs[i])]

RECURSIVE Insert(_, _)
\* x put into the ascending list s
Insert(s, x) ==
    IF s = <<>> THEN <<x>>
    ELSE IF x <= Head(s) THEN <<x>> \o s
    ELSE <<Head(s)>> \o Insert(Tail(s), x)

RECURSIVE SortValues(_)
\* dom_df.sort_values('clip_number'): the clip numbers in ascending order, duplicates kept
SortValues(s) == IF s = <<>> THEN <<>> ELSE Insert(SortValues(Tail(s)), Head(s))

\* ------------------------------------------------------------------ range round trip
IntValues == (0 - NegSpan)..MaxInt

ExampleList == <<2, 3, 4, 6, 8, 9>>

InputLists == UNION {[1..k -> IntValues] : k \in 0..MaxLen} \cup {ExampleList}

\* well-formed tokens: a bare integer, or a-b with a <= b
Tokens ==
    {FormatInt(n) : n \in 0..MaxTokInt}
    \cup {FormatInt(p[1]) \o <<"-">> \o FormatInt(p[2]) :
             p \in {q \in (0..MaxTokInt) \X (0..MaxTokInt) : q[1] <= q[2]}}

InputStrings == {Join(ts, ",") : ts \in UNION {[1..k -> Tokens] : k \in 0..MaxTokens}}

NoResult == [err |-> FALSE, val |-> <<>>]

InitRange ==
    /\ \/ rpc = "list" /\ rNums \in InputLists /\ rStr = <<>>
       \/ rpc = "string" /\ rNums = <<>> /\ rStr \in InputStrings
    /\ rOut = NoResult
    /\ rBack = <<>>

\* compress_ints applied to the input list
Compress ==
    /\ rpc = "list"
    /\ rStr' = compress_ints(rNums)
    /\ rpc' = "compressed"
    /\ UNCHANGED <<rNums, rOut, rBack>>
    /\ UNCHANGED notRange

\* expand_range_str applied to the range string
Expand ==
    /\ rpc \in {"compressed", "string"}
    /\ rOut' = expand_range_str(rStr)
    /\ rpc' = IF rpc = "compressed" THEN "roundtrip" ELSE "expanded"
    /\ UNCHANGED <<rNums, rStr, rBack>>
    /\ UNCHANGED notRange

\* compress_ints applied to the expanded list of a hand-written string
Recompress ==
    /\ rpc = "expanded"
    /\ ~rOut.err
    /\ rBack' = compress_ints(rOut.val)
    /\ rpc' = "recompressed"
    /\ UNCHANGED <<rNums, rStr, rOut>>
    /\ UNCHANGED notRange

NextRange == Compress \/ Expand \/ Recompress

\* ------------------------------------------------------------------ continuation_scenes on its own
InitCont ==
    /\ cpc = "call"
    /\ cExisting \in SUBSET (1..CMaxScene)
    /\ cBase \in (0 - 1)..(CMaxScene + 1)
    /\ cNext \in {None} \cup {Some(n) : n \in (0 - 1)..(CMaxScene + 1)}
    /\ cMax \in {None} \cup {Some(n) : n \in 1..(CMaxScene + 1)}
    /\ cOut = <<>>

CallContinuation ==
    /\ cpc = "call"
    /\ cOut' = continuation_scenes(cExisting, cBase, cNext, cMax)
    /\ cpc' = "returned"
    /\ UNCHANGED <<cExisting, cBase, cNext, cMax>>
    /\ UNCHANGED notCont

NextCont == CallContinuation

IdleRange ==
    /\ rpc = "idle" /\ rNums = <<>> /\ rStr = <<>> /\ rOut = NoResult /\ rBack = <<>>

IdleCont ==
    /\ cpc = "idle" /\ cExisting = {} /\ cBase = 0 /\ cNext = None /\ cMax = None
    /\ cOut = <<>>

\* ------------------------------------------------------------------ autocode.py main, one institution
ClipRows == UNION {[1..k -> 1..AMaxScene] : k \in 1..MaxRows}

InitAuto ==
    /\ apc = "list_scenes"
    /\ aRows \in ClipRows
    /\ aIsDir \in BOOLEAN
    /\ aDisk \in (IF aIsDir THEN SUBSET (1..AMaxScene) ELSE {{}})
    /\ aShots \in (IF aIsDir THEN SUBSET (1..AMaxScene) ELSE {{}})
    /\ existing_set = {}
    /\ max_scene = None
    /\ bases = <<>>
    /\ next_bases = <<>>
    /\ cont_lists = <<>>
    /\ cont_strs = <<>>
    /\ img_paths = <<>>
    /\ aGlue = <<>>

IdleAuto ==
    /\ apc = "idle" /\ aRows = <<>> /\ aIsDir = FALSE /\ aDisk = {} /\ aShots = {}
    /\ existing_set = {} /\ max_scene = None /\ bases = <<>> /\ next_bases = <<>>
    /\ cont_lists = <<>> /\ cont_strs = <<>> /\ img_paths = <<>> /\ aGlue = <<>>

\* main, lines 480-491: the scene listing, then the sorted bases and their successors
ListScenes ==
    /\ apc = "list_scenes"
    /\ LET existing_scene_nums == list_existing_scene_numbers(aIsDir, aDisk)
           sorted == SortValues(aRows)
       IN /\ existing_set' = Range(existing_scene_nums)
          /\ max_scene' = IF existing_scene_nums # <<>>
                          THEN Some(Max(Range(existing_scene_nums))) ELSE None
          /\ bases' = sorted
          /\ next_bases' = [i \in 1..Len(sorted) |->
                               IF i < Len(sorted) THEN Some(sorted[i + 1]) ELSE None]
    /\ apc' = "rows"
    /\ UNCHANGED <<aRows, aIsDir, aDisk, aShots, cont_lists, cont_strs, img_paths, aGlue>>
    /\ UNCHANGED notAuto

\* main, lines 497-502: one iteration of the loop over zip(bases, next_bases)
RowStep ==
    /\ apc = "rows"
    /\ Len(cont_lists) < Len(bases)
    /\ LET i == Len(cont_lists) + 1
           cont == continuation_scenes(existing_set, bases[i], next_bases[i], max_scene)
           img == choose_image_for_clip(aShots, bases[i], cont)
       IN /\ cont_lists' = Append(cont_lists, cont)
          /\ cont_strs' = Append(cont_strs, compress_ints(cont))
          /\ img_paths' = Append(img_paths, img)
    /\ UNCHANGED <<apc, aRows, aIsDir, aDisk, aShots, existing_set, max_scene, bases,
                   next_bases, aGlue>>
    /\ UNCHANGED notAuto

\* main, line 505: glue.csv is written once the loop is over
WriteGlue ==
    /\ apc = "rows"
    /\ Len(cont_lists) = Len(bases)
    /\ aGlue' = write_glue_csv(bases, cont_lists)
    /\ apc' = "glue_written"
    /\ UNCHANGED <<aRows, aIsDir, aDisk, aShots, existing_set, max_scene, bases,
                   next_bases, cont_lists, cont_strs, img_paths>>
    /\ UNCHANGED notAuto

NextAuto == ListScenes \/ RowStep \/ WriteGlue


\* ------------------------------------------------------------------ autocode.py main, whole run
\* the groups of df.groupby('institution_domain'), in the order the loop visits them
Domains == <<"a.edu", "b.edu">>

MainClipRows == UNION {[1..k -> 1..MainMaxClip] : k \in 1..MainMaxRows}

\* the scene numbers of an institution's files: one more than the clip numbers, so
\* that the last clip can have a continuation
MainScenes == 1..(MainMaxClip + 1)

\* the stripped content of a successful response
Replies == {<<"l", "i", "f", "e">>}

\* type(e).__name__ of what requests.post raises after `timeout` seconds
Exceptions == {<<"T", "i", "m", "e", "o", "u", "t">>}

ErrorPrefix == <<"E", "R", "R", "O", "R", ":">>

\* mutant: the exception is recorded without the tag
ErrorText_untagged(e) == e \o <<":", " ">>

\* f"ERROR: {type(e).__name__}: {e}", the message of e being empty
ErrorText(e) == ErrorPrefix \o <<" ">> \o e \o <<":", " ">>

StartsWith(s, prefix) == Len(s) >= Len(prefix) /\ SubSeq(s, 1, Len(prefix)) = prefix

\* mutant: every row is taken to have an image
NoImage_never(shots, img) == FALSE

\* line 517: not img or not os.path.exists(img)
NoImage(shots, img) == img = <<>> \/ ~PathExists(shots, img)

RECURSIVE Concat(_)
\* pd.concat(out_frames): the LLM Output column of the frames, one after the other
Concat(frames) ==
    IF frames = <<>> THEN <<>> ELSE Head(frames).llm_output \o Concat(Tail(frames))

InitMain ==
    /\ apc = "domain" /\ aRows = <<>> /\ aIsDir = FALSE /\ aDisk = {} /\ aShots = {}
    /\ existing_set = {} /\ max_scene = None /\ bases = <<>> /\ next_bases = <<>>
    /\ cont_lists = <<>> /\ cont_strs = <<>> /\ img_paths = <<>> /\ aGlue = <<>>
    /\ domain = 0
    /\ no_llm \in BOOLEAN
    /\ llm_outputs = <<>>
    /\ outstanding = {}
    /\ caught = None
    /\ out_frames = <<>>
    /\ out_xlsx = <<>>

IdleMain ==
    /\ domain = 0 /\ no_llm = FALSE /\ llm_outputs = <<>> /\ outstanding = {}
    /\ caught = None /\ out_frames = <<>> /\ out_xlsx = <<>>

\* main, lines 475-478 and 493-495: the loop moves to the next institution, whose
\* files are whatever is on disk then; the lists of the iteration start empty
NextDomain ==
    /\ apc = "domain"
    /\ domain < Len(Domains)
    /\ domain' = domain + 1
    /\ \E rows \in MainClipRows, isdir \in BOOLEAN :
          \E disk \in (IF isdir THEN SUBSET MainScenes ELSE {{}}),
             shots \in (IF isdir THEN SUBSET MainScenes ELSE {{}}) :
             /\ aRows' = rows
             /\ aIsDir' = isdir
             /\ aDisk' = disk
             /\ aShots' = shots
    /\ existing_set' = {} /\ max_scene' = None /\ bases' = <<>> /\ next_bases' = <<>>
    /\ cont_lists' = <<>> /\ cont_strs' = <<>> /\ img_paths' = <<>> /\ aGlue' = <<>>
    /\ llm_outputs' = <<>>
    /\ caught' = None
    /\ apc' = "list_scenes"
    /\ UNCHANGED <<no_llm, outstanding, out_frames, out_xlsx>>
    /\ UNCHANGED notMain

\* mutant: with --no_llm a single empty label is recorded
SkipLlm_one ==
    /\ apc = "glue_written"
    /\ no_llm
    /\ Len(llm_outputs) < Len(bases)
    /\ llm_outputs' = <<<<>>>>
    /\ UNCHANGED <<domain, no_llm, outstanding, caught, out_frames, out_xlsx>>
    /\ UNCHANGED autoVars
    /\ UNCHANGED notMain

\* main, lines 511-513: with --no_llm every row gets the empty label
SkipLlm ==
    /\ apc = "glue_written"
    /\ no_llm
    /\ Len(llm_outputs) < Len(bases)
    /\ llm_outputs' = [i \in 1..Len(bases) |-> <<>>]
    /\ UNCHANGED <<domain, no_llm, outstanding, caught, out_frames, out_xlsx>>
    /\ UNCHANGED autoVars
    /\ UNCHANGED notMain

\* main, lines 516-520: a row without an image gets the empty label and no request
LlmNoImage ==
    /\ apc = "glue_written"
    /\ ~no_llm
    /\ Len(llm_outputs) < Len(bases)
    /\ NoImage(aShots, img_paths[Len(llm_outputs) + 1])
    /\ llm_outputs' = Append(llm_outputs, <<>>)
    /\ caught' = None
    /\ UNCHANGED <<domain, no_llm, outstanding, out_frames, out_xlsx>>
    /\ UNCHANGED autoVars
    /\ UNCHANGED notMain

\* mutant: the request is sent and the loop does not wait for the answer
LlmRequest_async ==
    /\ apc = "glue_written"
    /\ ~no_llm
    /\ Len(llm_outputs) < Len(bases)
    /\ ~NoImage(aShots, img_paths[Len(llm_outputs) + 1])
    /\ outstanding' = outstanding \cup {<<Domains[domain], bases[Len(llm_outputs) + 1]>>}
    /\ llm_outputs' = Append(llm_outputs, <<>>)
    /\ UNCHANGED <<domain, no_llm, caught, out_frames, out_xlsx>>
    /\ UNCHANGED autoVars
    /\ UNCHANGED notMain

\* main, lines 524-532, and call_openai_vision up to requests.post: the request of
\* the row is sent and main waits for the answer
LlmRequest ==
    /\ apc = "glue_written"
    /\ ~no_llm
    /\ Len(llm_outputs) < Len(bases)
    /\ ~NoImage(aShots, img_paths[Len(llm_outputs) + 1])
    /\ outstanding' = outstanding \cup {<<Domains[domain], bases[Len(llm_outputs) + 1]>>}
    /\ apc' = "request"
    /\ UNCHANGED <<aRows, aIsDir, aDisk, aShots, existing_set, max_scene, bases, next_bases,
                   cont_lists, cont_strs, img_paths, aGlue>>
    /\ UNCHANGED <<domain, no_llm, llm_outputs, caught, out_frames, out_xlsx>>
    /\ UNCHANGED notMain

\* call_openai_vision returns the content of the response; line 536 records it
LlmResponse ==
    /\ apc = "request"
    /\ \E out \in Replies : llm_outputs' = Append(llm_outputs, out)
    /\ outstanding' = {}
    /\ caught' = None
    /\ apc' = "glue_written"
    /\ UNCHANGED <<aRows, aIsDir, aDisk, aShots, existing_set, max_scene, bases, next_bases,
                   cont_lists, cont_strs, img_paths, aGlue>>
    /\ UNCHANGED <<domain, no_llm, out_frames, out_xlsx>>
    /\ UNCHANGED notMain

\* lines 533-536: the request raises (time-out, HTTP error); the exception is caught
\* and its text recorded as the label
LlmRaises ==
    /\ apc = "request"
    /\ \E e \in Exceptions :
          /\ caught' = Some(e)
          /\ llm_outputs' = Append(llm_outputs, ErrorText(e))
    /\ outstanding' = {}
    /\ apc' = "glue_written"
    /\ UNCHANGED <<aRows, aIsDir, aDisk, aShots, existing_set, max_scene, bases, next_bases,
                   cont_lists, cont_strs, img_paths, aGlue>>
    /\ UNCHANGED <<domain, no_llm, out_frames, out_xlsx>>
    /\ UNCHANGED notMain

\* lines 540-553: the columns are filled, clips_analysis.csv is written and the
\* frame is appended to out_frames
WriteAnalysis ==
    /\ apc = "glue_written"
    /\ Len(llm_outputs) = Len(bases)
    /\ out_frames' = Append(out_frames, [institution_domain |-> Domains[domain],
                                         llm_output |-> llm_outputs])
    /\ apc' = "domain"
    /\ UNCHANGED <<aRows, aIsDir, aDisk, aShots, existing_set, max_scene, bases, next_bases,
                   cont_lists, cont_strs, img_paths, aGlue>>
    /\ UNCHANGED <<domain, no_llm, llm_outputs, outstanding, caught, out_xlsx>>
    /\ UNCHANGED notMain

\* lines 556-559: the consolidated workbook is written after the last institution
Consolidate ==
    /\ apc = "domain"
    /\ domain = Len(Domains)
    /\ out_xlsx' = Concat(out_frames)
    /\ apc' = "done"
    /\ UNCHANGED <<aRows, aIsDir, aDisk, aShots, existing_set, max_scene, bases, next_bases,
                   cont_lists, cont_strs, img_paths, aGlue>>
    /\ UNCHANGED <<domain, no_llm, llm_outputs, outstanding, caught, out_frames>>
    /\ UNCHANGED notMain

NextMain ==
    \/ NextDomain \/ ListScenes \/ RowStep \/ WriteGlue
    \/ SkipLlm \/ LlmNoImage \/ LlmRequest \/ LlmResponse \/ LlmRaises
    \/ WriteAnalysis \/ Consolidate

\* ------------------------------------------------------------------ glue.py, one site
\* the rows csv.reader returns for lines of scene numbers: the destination, then
\* the sources in ascending order without repetition
NumberRows ==
    {<<FormatInt(d)>> \o [i \in 1..Cardinality(S) |-> FormatInt(SortedSet(S)[i])] :
        d \in 1..GMaxScene,
        S \in {T \in SUBSET (1..GMaxScene) : Cardinality(T) <= MaxSources}}

\* the rows for the lines write_glue_csv writes for a continuation of two
\* consecutive scenes: the destination, then the range text
RangeRows == {<<FormatInt(d), RunText(d + 1, d + 2)>> : d \in 1..GMaxScene}

GlueRows == NumberRows \cup RangeRows

\* csv.reader: the cells of one line; a blank line gives the empty row
csv_row(line) == IF line = <<>> THEN <<>> ELSE Split(line, ",")

\* [int(num.strip()) for num in row]; err is TRUE when int() raises ValueError
ParseRow(row) ==
    IF \E i \in 1..Len(row) : ~ParseInt(row[i]).ok THEN [err |-> TRUE, val |-> <<>>]
    ELSE [err |-> FALSE, val |-> [i \in 1..Len(row) |-> ParseInt(row[i]).val]]

\* the scenes written to the concat list: those of the row whose file exists
Listed(disk, nums) == {n \in Range(nums) : n \in disk}

\* the concatenation tool: it cannot succeed on an empty list
ReturnCodes(disk, nums) == IF Listed(disk, nums) = {} THEN {1} ELSE {0, 1}

\* the files after the tool has run: on success the output file exists; a failed
\* run is taken to leave the directory as it was
DiskAfterConcat(disk, destination_scene, rc) ==
    IF rc = 0 THEN disk \cup {destination_scene} ELSE disk

\* mutant: the source files are removed whatever the tool returned
DiskAfterCleanup_ignore_rc(disk, nums, rc) == disk \ {n \in Range(nums) : n # nums[1]}

\* mutant: the source files are never removed
DiskAfterCleanup_keep_sources(disk, nums, rc) == disk

\* mutant: the destination is removed with the sources
DiskAfterCleanup_all(disk, nums, rc) == IF rc = 0 THEN disk \ Range(nums) ELSE disk

\* lines 101-114: on success every source file other than the destination is removed
DiskAfterCleanup(disk, nums, rc) ==
    IF rc = 0 THEN disk \ {n \in Range(nums) : n # nums[1]} ELSE disk

InitGlue ==
    /\ gpc = "remove_shots"
    /\ gDisk \in SUBSET (1..GMaxScene)
    /\ gShots \in SUBSET (1..GMaxScene)
    /\ gRead = 0
    /\ scene_numbers = <<>>
    /\ gRc = None

IdleGlue ==
    /\ gpc = "idle" /\ gDisk = {} /\ gShots = {} /\ gRead = 0 /\ scene_numbers = <<>>
    /\ gRc = None

\* lines 57-67: every screenshot of the site is removed
RemoveShots ==
    /\ gpc = "remove_shots"
    /\ gShots' = {}
    /\ gpc' = "read"
    /\ UNCHANGED <<gDisk, gRead, scene_numbers, gRc>>
    /\ UNCHANGED notGlue

\* lines 73-75: an empty row is skipped
SkipEmptyRow ==
    /\ gpc = "read"
    /\ gRead < MaxRecords
    /\ gRead' = gRead + 1
    /\ scene_numbers' = <<>>
    /\ gRc' = None
    /\ UNCHANGED <<gpc, gDisk, gShots>>
    /\ UNCHANGED notGlue

\* line 76: a cell that is no integer raises ValueError, which ends the script
RowRaises ==
    /\ gpc = "read"
    /\ gRead < MaxRecords
    /\ \E row \in GlueRows : ParseRow(row).err
    /\ gRead' = gRead + 1
    /\ scene_numbers' = <<>>
    /\ gRc' = None
    /\ gpc' = "crashed"
    /\ UNCHANGED <<gDisk, gShots>>
    /\ UNCHANGED notGlue

\* lines 73-114: one row is read, concatenated and, on success, cleaned up
GlueRow ==
    /\ gpc = "read"
    /\ gRead < MaxRecords
    /\ \E row \in GlueRows :
          /\ ~ParseRow(row).err
          /\ LET nums == ParseRow(row).val IN
             \E rc \in ReturnCodes(gDisk, nums) :
                /\ scene_numbers' = nums
                /\ gRc' = Some(rc)
                /\ gDisk' = DiskAfterCleanup(DiskAfterConcat(gDisk, nums[1], rc), nums, rc)
    /\ gRead' = gRead + 1
    /\ UNCHANGED <<gpc, gShots>>
    /\ UNCHANGED notGlue

\* line 117: the reader is exhausted
EndOfGlue ==
    /\ gpc = "read"
    /\ gpc' = "screenshots"
    /\ UNCHANGED <<gDisk, gShots, gRead, scene_numbers, gRc>>
    /\ UNCHANGED notGlue

\* lines 118-127: a screenshot is taken of every file left in the directory
TakeShots ==
    /\ gpc = "screenshots"
    /\ gShots' = gDisk
    /\ gpc' = "done"
    /\ UNCHANGED <<gDisk, gRead, scene_numbers, gRc>>
    /\ UNCHANGED notGlue

NextGlue == RemoveShots \/ SkipEmptyRow \/ RowRaises \/ GlueRow \/ EndOfGlue \/ TakeShots

\* ------------------------------------------------------------------ glue.py run twice on one site
\* the rows of glue.csv that are not blank: the destination, then sources other
\* than the destination in ascending order
RerunRows ==
    UNION {{<<FormatInt(d)>> \o [i \in 1..Cardinality(S) |-> FormatInt(SortedSet(S)[i])] :
               S \in {T \in SUBSET ((1..RerunMaxScene) \ {d}) :
                         Cardinality(T) <= RerunMaxSources}} :
           d \in 1..RerunMaxScene}

InitRerun ==
    /\ gpc = "remove_shots"
    /\ gDisk \in SUBSET (1..RerunMaxScene)
    /\ gShots = gDisk
    /\ gRead = 0
    /\ scene_numbers = <<>>
    /\ gRc = None
    /\ glue_csv = <<>>
    /\ gRun = 1
    /\ gFirstFailed = FALSE
    /\ gAfterFirst = {}

IdleRerun ==
    /\ glue_csv = <<>> /\ gRun = 0 /\ gFirstFailed = FALSE /\ gAfterFirst = {}

\* lines 76-114 for one row: the row is parsed, concatenated and cleaned up
ApplyRecord(row) ==
    LET nums == ParseRow(row).val IN
    \E rc \in ReturnCodes(gDisk, nums) :
        /\ scene_numbers' = nums
        /\ gRc' = Some(rc)
        /\ gDisk' = DiskAfterCleanup(DiskAfterConcat(gDisk, nums[1], rc), nums, rc)
        /\ gFirstFailed' = (gFirstFailed \/ (gRun = 1 /\ rc # 0))

\* first run, lines 73-114: the next row of the file is read and applied
FirstRunRow ==
    /\ gpc = "read"
    /\ gRun = 1
    /\ gRead < RerunMaxRecords
    /\ \E row \in RerunRows :
          /\ glue_csv' = Append(glue_csv, row)
          /\ ApplyRecord(row)
    /\ gRead' = gRead + 1
    /\ UNCHANGED <<gpc, gShots, gRun, gAfterFirst>>
    /\ UNCHANGED notRerun

\* second run, lines 73-114: the same file is read again, row by row
SecondRunRow ==
    /\ gpc = "read"
    /\ gRun = 2
    /\ gRead < Len(glue_csv)
    /\ ApplyRecord(glue_csv[gRead + 1])
    /\ gRead' = gRead + 1
    /\ UNCHANGED <<gpc, gShots, glue_csv, gRun, gAfterFirst>>
    /\ UNCHANGED notRerun

\* line 117: the reader is exhausted
RerunEndOfGlue ==
    /\ gpc = "read"
    /\ gRun = 1 \/ gRead = Len(glue_csv)
    /\ gpc' = "screenshots"
    /\ UNCHANGED <<gDisk, gShots, gRead, scene_numbers, gRc>>
    /\ UNCHANGED rerunVars
    /\ UNCHANGED notRerun

\* inference.py, lines 253-256, run to its end between the two runs: glue.csv is
\* truncated
Truncate ==
    /\ gpc = "done"
    /\ gRun = 1
    /\ glue_csv # <<>>
    /\ glue_csv' = <<>>
    /\ UNCHANGED <<gRun, gFirstFailed, gAfterFirst>>
    /\ UNCHANGED glueVars
    /\ UNCHANGED notRerun

\* glue.py is started again on the same site
SecondRun ==
    /\ gpc = "done"
    /\ gRun = 1
    /\ gRun' = 2
    /\ gAfterFirst' = gDisk
    /\ gpc' = "remove_shots"
    /\ gRead' = 0
    /\ scene_numbers' = <<>>
    /\ gRc' = None
    /\ UNCHANGED <<gDisk, gShots, glue_csv, gFirstFailed>>
    /\ UNCHANGED notRerun

NextRerun ==
    \/ RemoveShots \/ FirstRunRow \/ SecondRunRow \/ RerunEndOfGlue \/ TakeShots
    \/ Truncate \/ SecondRun

\* ------------------------------------------------------------------ inference.py
\* config.sites
Sites == <<"a.edu", "b.edu">>

\* rows of glue.csv: a bare destination; a destination and source numbers; a
\* destination and a range a-b
InferRows ==
    UNION {{<<FormatInt(d)>> \o [i \in 1..Cardinality(S) |-> FormatInt(SortedSet(S)[i])] :
               S \in {T \in SUBSET ((1..InferMaxScene) \ {d}) :
                         Cardinality(T) <= InferMaxSources}} :
           d \in 1..InferMaxScene}
    \cup {<<FormatInt(d), RunText(ab[1], ab[2])>> :
              d \in 1..InferMaxScene,
              ab \in {q \in (1..InferMaxScene) \X (1..InferMaxScene) : q[1] < q[2]}}

InferFiles == UNION {[1..k -> InferRows] : k \in 0..InferMaxRecords}

\* lines 88-101: the key and the values one row puts into glue_stick; err when
\* the row has no second cell (IndexError) or a cell is no integer (ValueError)
StickEntry(row) ==
    IF Len(row) < 2 THEN [err |-> TRUE, key |-> <<>>, values |-> <<>>]
    ELSE IF Contains(row[2], "-")
    THEN LET ends == Split(row[2], "-") IN
         IF Len(ends) # 2 \/ ~ParseInt(ends[1]).ok \/ ~ParseInt(ends[2]).ok
         THEN [err |-> TRUE, key |-> <<>>, values |-> <<>>]
         ELSE [err |-> FALSE,
               key |-> [str |-> TRUE, text |-> row[1]],
               values |-> IntRangeList(ParseInt(ends[1]).val, ParseInt(ends[2]).val)]
    ELSE IF ParseRow(row).err THEN [err |-> TRUE, key |-> <<>>, values |-> <<>>]
    ELSE [err |-> FALSE,
          key |-> [str |-> FALSE, text |-> FormatInt(ParseRow(row).val[1])],
          values |-> Tail(ParseRow(row).val)]

\* glue_stick[key] = values: an entry of the same key is replaced where it stands
StickPut(stick, key, values) ==
    IF \E i \in 1..Len(stick) : stick[i].key = key
    THEN [i \in 1..Len(stick) |->
             IF stick[i].key = key THEN [key |-> key, values |-> values] ELSE stick[i]]
    ELSE Append(stick, [key |-> key, values |-> values])

RECURSIVE ReadGlue(_, _)
\* lines 83-106: the rows are put into glue_stick one after the other, up to the
\* first row that raises
ReadGlue(rows, stick) ==
    IF rows = <<>> THEN [err |-> FALSE, stick |-> stick]
    ELSE LET e == StickEntry(Head(rows)) IN
         IF e.err THEN [err |-> TRUE, stick |-> stick]
         ELSE ReadGlue(Tail(rows), StickPut(stick, e.key, e.values))

\* the length ffmpeg reports for scene n of the site, as a one-term sum
Duration(site, n) == <<<<site, n>>>>

\* lines 109-131: video_timestamps gets the length of every video of the site;
\* the entries of other scenes stay
Timestamps(stamps, site, videos) ==
    [n \in (DOMAIN stamps) \cup videos |->
        IF n \in videos THEN Duration(site, n) ELSE stamps[n]]

\* lines 153-168: the first entry, in insertion order, whose key or one of whose
\* values is the scene; 0 when there is none
StickHit(stick, n) ==
    LET hits == {i \in 1..Len(stick) :
                    stick[i].key.text = FormatInt(n) \/ n \in Range(stick[i].values)}
    IN IF hits = {} THEN 0 ELSE Min(hits)

\* glue_array: the scene is a value of the entry found, which is not its key
IsChild(stick, n) ==
    StickHit(stick, n) # 0 /\ stick[StickHit(stick, n)].key.text # FormatInt(n)

\* the scenes whose lengths are added up for a row: the scene, then the values of
\* the entry of which it is the key
LengthTerms(stick, n) ==
    IF StickHit(stick, n) # 0 /\ ~IsChild(stick, n)
    THEN <<n>> \o stick[StickHit(stick, n)].values
    ELSE <<n>>

RECURSIVE SumLengths(_, _)
\* lines 181-188: video_timestamps[...] of each term, added with add_time_strings
SumLengths(stamps, terms) ==
    IF terms = <<>> THEN <<>>
    ELSE stamps[Head(terms)] \o SumLengths(stamps, Tail(terms))

InitInfer ==
    /\ ipc = "site"
    /\ iSite = 0
    /\ iGlue \in InferFiles
    /\ iVideos = {}
    /\ iImages = {}
    /\ iSeen = {}
    /\ glue_stick = <<>>
    /\ video_timestamps = <<>>
    /\ data = <<>>

IdleInfer ==
    /\ ipc = "idle" /\ iSite = 0 /\ iGlue = <<>> /\ iVideos = {} /\ iImages = {}
    /\ iSeen = {} /\ glue_stick = <<>> /\ video_timestamps = <<>> /\ data = <<>>

\* lines 70-80: the next domain whose scenes directory exists; its files are
\* whatever is on disk then, a screenshot belonging to a video
InferSite ==
    /\ ipc = "site"
    /\ iSite < Len(Sites)
    /\ iSite' = iSite + 1
    /\ \E videos \in SUBSET (1..InferMaxScene) :
          \E images \in SUBSET videos :
             /\ iVideos' = videos
             /\ iImages' = images
    /\ iSeen' = {}
    /\ ipc' = "glue"
    /\ UNCHANGED <<iGlue, glue_stick, video_timestamps, data>>
    /\ UNCHANGED notInfer

\* lines 70-80: a domain without a scenes directory is passed over
InferSkipSite ==
    /\ ipc = "site"
    /\ iSite < Len(Sites)
    /\ iSite' = iSite + 1
    /\ iVideos' = {}
    /\ iImages' = {}
    /\ iSeen' = {}
    /\ UNCHANGED <<ipc, iGlue, glue_stick, video_timestamps, data>>
    /\ UNCHANGED notInfer

\* lines 83-106: glue.csv is read into glue_stick
InferReadGlue ==
    /\ ipc = "glue"
    /\ glue_stick' = ReadGlue(iGlue, glue_stick).stick
    /\ ipc' = IF ReadGlue(iGlue, glue_stick).err THEN "crashed" ELSE "timestamps"
    /\ UNCHANGED <<iSite, iGlue, iVideos, iImages, iSeen, video_timestamps, data>>
    /\ UNCHANGED notInfer

\* lines 108-132: the lengths of the domain's videos are put into video_timestamps
InferTimestamps ==
    /\ ipc = "timestamps"
    /\ video_timestamps' = Timestamps(video_timestamps, iSite, iVideos)
    /\ ipc' = "images"
    /\ UNCHANGED <<iSite, iGlue, iVideos, iImages, iSeen, glue_stick, data>>
    /\ UNCHANGED notInfer

\* lines 137-169: the next image is that of a child scene of a glue entry: skipped
InferSkipChild ==
    /\ ipc = "images"
    /\ iSeen # iImages
    /\ LET n == Min(iImages \ iSeen) IN
          /\ IsChild(glue_stick, n)
          /\ iSeen' = iSeen \cup {n}
    /\ UNCHANGED <<ipc, iSite, iGlue, iVideos, iImages, glue_stick, video_timestamps, data>>
    /\ UNCHANGED notInfer

\* lines 181-188: a length looked up in video_timestamps is missing: KeyError
InferKeyError ==
    /\ ipc = "images"
    /\ iSeen # iImages
    /\ LET n == Min(iImages \ iSeen) IN
          /\ ~IsChild(glue_stick, n)
          /\ \E t \in Range(LengthTerms(glue_stick, n)) : t \notin DOMAIN video_timestamps
          /\ iSeen' = iSeen \cup {n}
    /\ ipc' = "crashed"
    /\ UNCHANGED <<iSite, iGlue, iVideos, iImages, glue_stick, video_timestamps, data>>
    /\ UNCHANGED notInfer

\* lines 196-243: a request to the local model raises; nothing catches it
InferRequestRaises ==
    /\ ipc = "images"
    /\ iSeen # iImages
    /\ LET n == Min(iImages \ iSeen) IN
          /\ ~IsChild(glue_stick, n)
          /\ \A t \in Range(LengthTerms(glue_stick, n)) : t \in DOMAIN video_timestamps
          /\ iSeen' = iSeen \cup {n}
    /\ ipc' = "crashed"
    /\ UNCHANGED <<iSite, iGlue, iVideos, iImages, glue_stick, video_timestamps, data>>
    /\ UNCHANGED notInfer

\* lines 137-246: the next image is described and its row appended to data
InferImage ==
    /\ ipc = "images"
    /\ iSeen # iImages
    /\ LET n == Min(iImages \ iSeen) IN
          /\ ~IsChild(glue_stick, n)
          /\ \A t \in Range(LengthTerms(glue_stick, n)) : t \in DOMAIN video_timestamps
          /\ iSeen' = iSeen \cup {n}
          /\ data' = Append(data, [domain |-> iSite,
                                   length |-> SumLengths(video_timestamps,
                                                         LengthTerms(glue_stick, n)),
                                   scene |-> n])
    /\ UNCHANGED <<ipc, iSite, iGlue, iVideos, iImages, glue_stick, video_timestamps>>
    /\ UNCHANGED notInfer

\* the images of the domain are exhausted: on to the next domain
InferEndOfSite ==
    /\ ipc = "images"
    /\ iSeen = iImages
    /\ ipc' = "site"
    /\ UNCHANGED <<iSite, iGlue, iVideos, iImages, iSeen, glue_stick, video_timestamps, data>>
    /\ UNCHANGED notInfer

\* lines 246-256: the workbook is written and glue.csv truncated
InferFinish ==
    /\ ipc = "site"
    /\ iSite = Len(Sites)
    /\ iGlue' = <<>>
    /\ ipc' = "done"
    /\ UNCHANGED <<iSite, iVideos, iImages, iSeen, glue_stick, video_timestamps, data>>
    /\ UNCHANGED notInfer

NextInfer ==
    \/ InferSite \/ InferSkipSite \/ InferReadGlue \/ InferTimestamps
    \/ InferSkipChild \/ InferKeyError \/ InferRequestRaises \/ InferImage
    \/ InferEndOfSite \/ InferFinish

\* ------------------------------------------------------------------ splitfix.py, one site
\* merge_files, lines 34-47: every listed file that exists and is not `file` is
\* removed together with its screenshot; the return code is not looked at
FilesAfterMerge(disk, shots, process_videos, file, rc) ==
    LET gone == {n \in Range(process_videos) : n \in disk /\ n # file}
    IN [disk |-> disk \ gone, shots |-> shots \ gone]

InitFix ==
    /\ fpc = "site"
    /\ fDisk = {}
    /\ fShots = {}
    /\ fVideos = {}
    /\ fProc = <<>>
    /\ fFile = None
    /\ fRc = None
    /\ fCount = 0
    /\ fSite = 0
    /\ fLog = <<>>

IdleFix ==
    /\ fpc = "idle" /\ fDisk = {} /\ fShots = {} /\ fVideos = {} /\ fProc = <<>>
    /\ fFile = None /\ fRc = None /\ fCount = 0 /\ fSite = 0 /\ fLog = <<>>

\* what the main loop and process_folder print
Processing == "Processing"
NoFolder == "Error, no folder found!"
Complete == "Fix splits complete."

\* main loop, lines 116-119, and process_folder, line 88: the next site has its
\* folder; its scenes directory holds whatever is on disk then
FixSite ==
    /\ fpc = "site"
    /\ fSite < Len(Sites)
    /\ fSite' = fSite + 1
    /\ fLog' = Append(fLog, Processing)
    /\ \E disk \in SUBSET (1..FMaxScene), shots \in SUBSET (1..FMaxScene) :
          /\ fDisk' = disk
          /\ fShots' = shots
    /\ fpc' = "list"
    /\ UNCHANGED <<fVideos, fProc, fFile, fRc, fCount>>
    /\ UNCHANGED notFix

\* process_folder, lines 108-110: the folder of the site is missing; the message
\* is printed, `exit` is a bare name that calls nothing, and the function returns
FixNoFolder ==
    /\ fpc = "site"
    /\ fSite < Len(Sites)
    /\ fSite' = fSite + 1
    /\ fLog' = fLog \o <<Processing, NoFolder>>
    /\ UNCHANGED <<fpc, fDisk, fShots, fVideos, fProc, fFile, fRc, fCount>>
    /\ UNCHANGED notFix

\* line 121: the loop over the sites has ended
FixComplete ==
    /\ fpc = "site"
    /\ fSite = Len(Sites)
    /\ fLog' = Append(fLog, Complete)
    /\ fpc' = "done"
    /\ UNCHANGED <<fDisk, fShots, fVideos, fProc, fFile, fRc, fCount, fSite>>
    /\ UNCHANGED notFix

\* process_folder, lines 87-102: the scene files are listed once
ListVideos ==
    /\ fpc = "list"
    /\ fVideos' = fDisk
    /\ fpc' = "prompt"
    /\ UNCHANGED <<fDisk, fShots, fProc, fFile, fRc, fCount>>
    /\ UNCHANGED <<fSite, fLog>>
    /\ UNCHANGED notFix

\* lookup_file with "exit": nothing is merged
LookupExit ==
    /\ fpc = "prompt"
    /\ fCount < MaxLookups
    /\ fCount' = fCount + 1
    /\ fProc' = <<>>
    /\ fFile' = None
    /\ fRc' = None
    /\ UNCHANGED <<fpc, fDisk, fShots, fVideos>>
    /\ UNCHANGED <<fSite, fLog>>
    /\ UNCHANGED notFix

\* lookup_file with "next" or "previous" and a key missing from file_dict: KeyError
LookupRaises ==
    /\ fpc = "prompt"
    /\ fCount < MaxLookups
    /\ \E k \in 1..FMaxScene, d \in {1, 0 - 1} : k \notin fVideos \/ (k + d) \notin fVideos
    /\ fCount' = fCount + 1
    /\ fProc' = <<>>
    /\ fFile' = None
    /\ fRc' = None
    /\ fpc' = "crashed"
    /\ UNCHANGED <<fDisk, fShots, fVideos>>
    /\ UNCHANGED <<fSite, fLog>>
    /\ UNCHANGED notFix

\* lookup_file with "next" (d = 1) or "previous" (d = -1), then merge_files
LookupMerge ==
    /\ fpc = "prompt"
    /\ fCount < MaxLookups
    /\ \E k \in fVideos, d \in {1, 0 - 1}, rc \in {0, 1} :
          /\ (k + d) \in fVideos
          /\ LET process_videos == IF d = 1 THEN <<k, k + d>> ELSE <<k + d, k>>
                 ran == IF rc = 0 THEN fDisk \cup {k} ELSE fDisk
                 after == FilesAfterMerge(ran, fShots, process_videos, k, rc)
             IN /\ fProc' = process_videos
                /\ fFile' = Some(k)
                /\ fRc' = Some(rc)
                /\ fDisk' = after.disk
                /\ fShots' = after.shots
    /\ fCount' = fCount + 1
    /\ UNCHANGED <<fpc, fVideos>>
    /\ UNCHANGED <<fSite, fLog>>
    /\ UNCHANGED notFix

\* process_folder, line 105: int(input()) of a word such as "exit" raises ValueError
InputRaises ==
    /\ fpc = "prompt"
    /\ fpc' = "crashed"
    /\ UNCHANGED <<fDisk, fShots, fVideos, fProc, fFile, fRc, fCount>>
    /\ UNCHANGED <<fSite, fLog>>
    /\ UNCHANGED notFix

NextFix ==
    \/ FixSite \/ FixNoFolder \/ FixComplete
    \/ ListVideos \/ LookupExit \/ LookupRaises \/ LookupMerge \/ InputRaises

\* ------------------------------------------------------------------ split.py, subsplit.py
\* the values `operation` is set to in split.py: the two the check of lines 29-33
\* accepts, and the third its header comment names
Operations == {"append", "rewrite", "custom"}

\* ffprobe's duration of a video: past every boundary
VideoDuration == SMaxTime + 1

\* the boundaries ffmpeg logs for a video, in the order of the log
TimestampLists ==
    {SortedSet(S) : S \in {T \in SUBSET (1..SMaxTime) : Cardinality(T) <= SMaxCuts}}

\* what os.listdir of an institution folder yields, by kind of file
Listings ==
    {<<>>, <<"video">>, <<"other", "video">>, <<"video", "video">>, <<"corrupt", "video">>}

\* a scene file left by an earlier run
OldScene == [of |-> 0, ss |-> 0, to |-> None, copy |-> FALSE]

\* the files of a scenes directory with scene_<n>.mp4 (re)written
WriteScene(files, n, content) ==
    [m \in (DOMAIN files) \cup {n} |-> IF m = n THEN content ELSE files[m]]

\* lines 160-165 (subsplit.py 146-151): the cut -ss previous_timestamp -to timestamp
\* of video v
SceneCut(v, previous_timestamp, timestamp) ==
    [of |-> v, ss |-> previous_timestamp, to |-> Some(timestamp), copy |-> FALSE]

\* lines 169-175: the last cut of split.py has -ss and no -to
FinalCut(v, previous_timestamp) ==
    [of |-> v, ss |-> previous_timestamp, to |-> None, copy |-> FALSE]

\* subsplit.py lines 156-164: the last cut runs from the last timestamp to the
\* duration of the video
FinalCut_subsplit(v, timestamp) ==
    [of |-> v, ss |-> timestamp, to |-> Some(VideoDuration), copy |-> FALSE]

\* lines 151-155 (subsplit.py 136-141): shutil.copyfile of the whole video
WholeCopy(v) == [of |-> v, ss |-> 0, to |-> None, copy |-> TRUE]

RECURSIVE SplitLoop(_, _, _, _, _)
\* lines 157-167 (subsplit.py 143-154): for i, timestamp in enumerate(timestamps), from index i on
SplitLoop(v, stamps, i, previous_timestamp, files) ==
    IF i > Len(stamps) THEN [files |-> files, previous_timestamp |-> previous_timestamp]
    ELSE SplitLoop(v, stamps, i + 1, stamps[i],
                   WriteScene(files, i, SceneCut(v, previous_timestamp, stamps[i])))

\* mutant: the final segment is not cut
process_video_no_final(v, stamps, files, which) ==
    IF Len(stamps) = 0 THEN WriteScene(files, 1, WholeCopy(v))
    ELSE SplitLoop(v, stamps, 1, 0, files).files

\* process_video, split.py lines 130-176 and subsplit.py lines 114-165: the scene
\* files after video v has been split at the boundaries stamps
process_video(v, stamps, files, which) ==
    IF Len(stamps) = 0 THEN WriteScene(files, 1, WholeCopy(v))
    ELSE LET l == SplitLoop(v, stamps, 1, 0, files) IN
         WriteScene(l.files, Len(stamps) + 1,
                    IF which = "split" THEN FinalCut(v, l.previous_timestamp)
                    ELSE FinalCut_subsplit(v, stamps[Len(stamps)]))

\* the files of a scenes directory restricted to the scene numbers kept
Keep(files, kept) == [m \in (DOMAIN files) \cap kept |-> files[m]]

InitSplit ==
    /\ \/ script = "split" /\ operation \in Operations /\ spc = "check"
       \/ script = "subsplit" /\ operation = "unset" /\ spc = "site"
    /\ sSite = 0
    /\ sIsDir = FALSE
    /\ sScenes = <<>>
    /\ sFiles = <<>>
    /\ sFile = 0
    /\ timestamps = <<>>
    /\ sDone = {}

IdleSplit ==
    /\ script = "idle" /\ operation = "idle" /\ spc = "idle" /\ sSite = 0 /\ sIsDir = FALSE /\ sScenes = <<>>
    /\ sFiles = <<>> /\ sFile = 0 /\ timestamps = <<>> /\ sDone = {}

\* lines 29-33: the operation is checked and a message printed; `quit` is a bare
\* name that calls nothing, so the script goes on in both branches
CheckOperation ==
    /\ spc = "check"
    /\ spc' = "site"
    /\ UNCHANGED <<script, operation, sSite, sIsDir, sScenes, sFiles, sFile, timestamps, sDone>>
    /\ UNCHANGED notSplit

\* main loop, lines 245-257, and process_folder, lines 181-192: the next site has
\* its folder; with "rewrite" an existing scenes directory is removed, then the
\* scenes directory is made when it is missing, and the folder is listed
SplitSite ==
    /\ script = "split"
    /\ spc = "site"
    /\ sSite < Len(Sites)
    /\ sSite' = sSite + 1
    /\ \E isdir \in BOOLEAN, old \in SUBSET (1..SOldScenes), listing \in Listings :
          /\ (~isdir => old = {})
          /\ sScenes' = IF operation = "rewrite" THEN <<>> ELSE [n \in old |-> OldScene]
          /\ sDone' = sDone \cup (IF operation = "rewrite" /\ isdir THEN {"rmtree"} ELSE {})
                            \cup (IF operation = "rewrite" \/ ~isdir THEN {"makedirs"}
                                  ELSE {})
          /\ sFiles' = listing
    /\ sIsDir' = TRUE
    /\ sFile' = 0
    /\ spc' = "files"
    /\ UNCHANGED <<script, operation, timestamps>>
    /\ UNCHANGED notSplit

\* process_folder, line 182: the institution path is no directory
SplitNoFolder ==
    /\ script = "split"
    /\ spc = "site"
    /\ sSite < Len(Sites)
    /\ sSite' = sSite + 1
    /\ sIsDir' = FALSE
    /\ sScenes' = <<>>
    /\ sFiles' = <<>>
    /\ sFile' = 0
    /\ UNCHANGED <<script, operation, spc, timestamps, sDone>>
    /\ UNCHANGED notSplit

\* lines 200-204: a file whose mimetype is unknown is passed over
SplitSkipFile ==
    /\ spc = "files"
    /\ sFile < Len(sFiles)
    /\ sFiles[sFile + 1] = "other"
    /\ sFile' = sFile + 1
    /\ UNCHANGED <<script, operation, spc, sSite, sIsDir, sScenes, sFiles, timestamps, sDone>>
    /\ UNCHANGED notSplit

\* lines 205-208: a corrupt video: the institution folder is removed with all it
\* holds, and none of the files listed after it is a file any more
SplitPrune ==
    /\ spc = "files"
    /\ sFile < Len(sFiles)
    /\ sFiles[sFile + 1] = "corrupt"
    /\ sFile' = Len(sFiles)
    /\ sIsDir' = FALSE
    /\ sScenes' = <<>>
    /\ sDone' = sDone \cup {"prune"}
    /\ UNCHANGED <<script, operation, spc, sSite, sFiles, timestamps>>
    /\ UNCHANGED notSplit

\* lines 209-217: a video under "append" whose scenes directory is not empty is
\* not split
SplitAppendSkip ==
    /\ spc = "files"
    /\ sFile < Len(sFiles)
    /\ sFiles[sFile + 1] = "video"
    /\ operation = "append"
    /\ DOMAIN sScenes # {}
    /\ sFile' = sFile + 1
    /\ timestamps' = <<>>
    /\ spc' = "post"
    /\ UNCHANGED <<script, operation, sSite, sIsDir, sScenes, sFiles, sDone>>
    /\ UNCHANGED notSplit

\* lines 209-219 and process_video: the video is split at the boundaries found
SplitVideo ==
    /\ spc = "files"
    /\ sFile < Len(sFiles)
    /\ sFiles[sFile + 1] = "video"
    /\ operation = "append" => DOMAIN sScenes = {}
    /\ sFile' = sFile + 1
    /\ \E stamps \in TimestampLists :
          /\ timestamps' = stamps
          /\ sScenes' = process_video(sFile + 1, stamps, sScenes, "split")
    /\ sDone' = sDone \cup {"process_video"}
    /\ spc' = "split"
    /\ UNCHANGED <<script, operation, sSite, sIsDir, sFiles>>
    /\ UNCHANGED notSplit

\* lines 222-238: black.py and the check of every clip remove some scene files;
\* the others get their screenshot
SplitPost ==
    /\ spc \in {"split", "post"}
    /\ \E kept \in SUBSET (DOMAIN sScenes) : sScenes' = Keep(sScenes, kept)
    /\ spc' = "files"
    /\ UNCHANGED <<script, operation, sSite, sIsDir, sFiles, sFile, timestamps, sDone>>
    /\ UNCHANGED notSplit

\* the listing of the folder is exhausted: on to the next site
SplitEndOfFolder ==
    /\ spc = "files"
    /\ sFile = Len(sFiles)
    /\ spc' = "site"
    /\ UNCHANGED <<script, operation, sSite, sIsDir, sScenes, sFiles, sFile, timestamps, sDone>>
    /\ UNCHANGED notSplit

\* line 259: the loop over the sites has ended
SplitDone ==
    /\ spc = "site"
    /\ sSite = Len(Sites)
    /\ spc' = "done"
    /\ UNCHANGED <<script, operation, sSite, sIsDir, sScenes, sFiles, sFile, timestamps, sDone>>
    /\ UNCHANGED notSplit

\* subsplit.py, process_folder lines 174-202 and process_video lines 114-165: the
\* video named by config.subsplit in the scenes directory of the next site is split
\* into <subsplit>_<i>.mp4, next to the scene files that are there
SubsplitVideo ==
    /\ script = "subsplit"
    /\ spc = "site"
    /\ sSite < Len(Sites)
    /\ sSite' = sSite + 1
    /\ \E stamps \in TimestampLists :
          /\ timestamps' = stamps
          /\ sScenes' = process_video(1, stamps, <<>>, "subsplit")
    /\ sIsDir' = TRUE
    /\ sFiles' = <<"video">>
    /\ sFile' = 1
    /\ sDone' = sDone \cup {"process_video"}
    /\ spc' = "subsplit"
    /\ UNCHANGED <<script, operation>>
    /\ UNCHANGED notSplit

\* subsplit.py, process_video lines 167-169: a screenshot of every result file
SubsplitShots ==
    /\ spc = "subsplit"
    /\ spc' = "site"
    /\ UNCHANGED <<script, operation, sSite, sIsDir, sScenes, sFiles, sFile, timestamps, sDone>>
    /\ UNCHANGED notSplit

\* subsplit.py, process_folder lines 174-182: the site has no folder, or no video
\* of that name in its scenes directory
SubsplitSkip ==
    /\ script = "subsplit"
    /\ spc = "site"
    /\ sSite < Len(Sites)
    /\ sSite' = sSite + 1
    /\ sIsDir' \in BOOLEAN
    /\ sScenes' = <<>>
    /\ sFiles' = <<>>
    /\ sFile' = 0
    /\ UNCHANGED <<script, operation, spc, timestamps, sDone>>
    /\ UNCHANGED notSplit

NextSplit ==
    \/ CheckOperation \/ SplitSite \/ SplitNoFolder \/ SplitSkipFile \/ SplitPrune
    \/ SplitAppendSkip \/ SplitVideo \/ SplitPost \/ SplitEndOfFolder \/ SplitDone
    \/ SubsplitVideo \/ SubsplitShots \/ SubsplitSkip

\* ------------------------------------------------------------------ scan.py
\* the rows of scan_results.xlsx, by the URL of the institution
ScanRows == <<"a.edu", "b.edu">>

\* the file at a video path: how many chunks it holds, of how many in the response
VideoFile(written, total) == [written |-> written, total |-> total]

\* lines 66-68: one more chunk is written to the open file
WriteChunk(file) == VideoFile(file.written + 1, file.total)

\* lines 73-74: the except branch prints the failure; what open() made is left
AfterStreamFailure(file) == Some(file)

InitScan ==
    /\ npc = "row"
    /\ nRun = 1
    /\ nRow = 0
    /\ nUsable \in [1..Len(ScanRows) -> BOOLEAN]
    /\ nFiles = [i \in 1..Len(ScanRows) |-> None]
    /\ nLeft = 0

IdleScan ==
    /\ npc = "idle" /\ nRun = 0 /\ nRow = 0 /\ nUsable = <<>> /\ nFiles = <<>> /\ nLeft = 0

\* lines 24-38: a row without video source, not primary or not .edu is passed over
ScanSkipRow ==
    /\ npc = "row"
    /\ nRow < Len(ScanRows)
    /\ ~nUsable[nRow + 1]
    /\ nRow' = nRow + 1
    /\ UNCHANGED <<npc, nRun, nUsable, nFiles, nLeft>>
    /\ UNCHANGED notScan

\* lines 50-53: a file exists at the video path: the download is skipped
ScanExists ==
    /\ npc = "row"
    /\ nRow < Len(ScanRows)
    /\ nUsable[nRow + 1]
    /\ nFiles[nRow + 1] # None
    /\ nRow' = nRow + 1
    /\ UNCHANGED <<npc, nRun, nUsable, nFiles, nLeft>>
    /\ UNCHANGED notScan

\* lines 56-65 and 73-74: requests.get or raise_for_status raises before the file
\* is opened
ScanRequestFails ==
    /\ npc = "row"
    /\ nRow < Len(ScanRows)
    /\ nUsable[nRow + 1]
    /\ nFiles[nRow + 1] = None
    /\ nRow' = nRow + 1
    /\ UNCHANGED <<npc, nRun, nUsable, nFiles, nLeft>>
    /\ UNCHANGED notScan

\* lines 56-66: the response arrives and open(video_filename, 'wb') makes the file
ScanOpen ==
    /\ npc = "row"
    /\ nRow < Len(ScanRows)
    /\ nUsable[nRow + 1]
    /\ nFiles[nRow + 1] = None
    /\ nRow' = nRow + 1
    /\ \E total \in 1..ScanMaxChunks :
          /\ nLeft' = total
          /\ nFiles' = [nFiles EXCEPT ![nRow + 1] = Some(VideoFile(0, total))]
    /\ npc' = "stream"
    /\ UNCHANGED <<nRun, nUsable>>
    /\ UNCHANGED notScan

\* lines 67-68: the next chunk of the response is written
ScanChunk ==
    /\ npc = "stream"
    /\ nLeft > 0
    /\ nLeft' = nLeft - 1
    /\ nFiles' = [nFiles EXCEPT ![nRow] = Some(WriteChunk(nFiles[nRow][1]))]
    /\ UNCHANGED <<npc, nRun, nRow, nUsable>>
    /\ UNCHANGED notScan

\* lines 67-74: iter_content raises while chunks are outstanding; the exception is
\* caught and reported
ScanStreamFails ==
    /\ npc = "stream"
    /\ nLeft > 0
    /\ nLeft' = 0
    /\ nFiles' = [nFiles EXCEPT ![nRow] = AfterStreamFailure(nFiles[nRow][1])]
    /\ npc' = "row"
    /\ UNCHANGED <<nRun, nRow, nUsable>>
    /\ UNCHANGED notScan

\* lines 67-70: the response is exhausted and the file closed
ScanDownloaded ==
    /\ npc = "stream"
    /\ nLeft = 0
    /\ npc' = "row"
    /\ UNCHANGED <<nRun, nRow, nUsable, nFiles, nLeft>>
    /\ UNCHANGED notScan

\* lines 75-77: the rows are exhausted and split.py is run; the script is started
\* again later on the same spreadsheet
ScanAgain ==
    /\ npc = "row"
    /\ nRow = Len(ScanRows)
    /\ nRun < ScanRuns
    /\ nRun' = nRun + 1
    /\ nRow' = 0
    /\ UNCHANGED <<npc, nUsable, nFiles, nLeft>>
    /\ UNCHANGED notScan

NextScan ==
    \/ ScanSkipRow \/ ScanExists \/ ScanRequestFails \/ ScanOpen \/ ScanChunk
    \/ ScanStreamFails \/ ScanDownloaded \/ ScanAgain

\* ------------------------------------------------------------------ second_codes.py
\* the stratum of a row whose domain is not in the national file
Unknown == "UNKNOWN"

\* the strata of the national file that rows of scenes_df can fall into
KnownStrata == {"1|1", "2|1"}

Strata == KnownStrata \cup {Unknown}

RowCounts == {0, 1, 2, CodesMany, 2 * CodesMany}

RECURSIVE SumOver(_, _)
\* Series.sum() / sum of a dict's values over the strata S
SumOver(f, S) ==
    IF S = {} THEN 0
    ELSE LET s == CHOOSE x \in S : TRUE IN f[s] + SumOver(f, S \ {s})

\* line 119: N = len(scenes_df)
RowTotal(av) == SumOver(av, Strata)

\* line 120: int(np.ceil(SAMPLE_RATE * N)) if N else 0; the binary64 product
\* 0.10 * N is N/10 exactly when 10 divides N and lies strictly between the same
\* two integers as N/10 otherwise
SampleSize(n) == IF n = 0 THEN 0 ELSE (SampleRatePercent * n + 99) \div 100

\* lines 125-126: present_non_unknown
PresentKnown(av) == {s \in KnownStrata : av[s] > 0}

\* lines 145-146: np.floor(nat_shares * sample_n) of one stratum, for the share
\* num / den; where the quotient is a whole number the rounded product
\* (count / sum) * sample_n can fall just below it, as in 1/49*49
FloorOutcomes(num, den) ==
    IF num % den = 0 /\ num > 0 THEN {num \div den, (num \div den) - 1}
    ELSE {num \div den}

\* mutant: the base counts are not clipped
Clip_none(base, upper) == base

\* line 149: base.clip(upper=avail)
Clip(base, upper) == [s \in DOMAIN base |-> Min({base[s], upper[s]})]

\* the orders in which a loop can visit the strata S when it visits them by
\* descending key and the sort leaves ties in any order
DescendingOrders(S, key) ==
    {o \in [1..Cardinality(S) -> S] :
        /\ \A i, j \in 1..Cardinality(S) : i # j => o[i] # o[j]
        /\ \A i, j \in 1..Cardinality(S) : i < j => key[o[i]] >= key[o[j]]}

RECURSIVE RemainderLoop(_, _, _, _)
\* lines 155-160: one more for each stratum that has rows left, by descending
\* remainder, while remaining > 0
RemainderLoop(order, al, rem, av) ==
    IF order = <<>> \/ rem <= 0 THEN [alloc |-> al, remaining |-> rem]
    ELSE LET s == Head(order) IN
         IF al[s] < av[s]
         THEN RemainderLoop(Tail(order), [al EXCEPT ![s] = @ + 1], rem - 1, av)
         ELSE RemainderLoop(Tail(order), al, rem, av)

RECURSIVE FillLoop(_, _, _, _)
\* lines 172-178: take = min(capacity, remaining) from each stratum in order
FillLoop(order, al, rem, capacity) ==
    IF order = <<>> \/ rem <= 0 THEN [alloc |-> al, remaining |-> rem]
    ELSE LET s == Head(order)
             take == Min({capacity[s], rem})
         IN IF take > 0
            THEN FillLoop(Tail(order), [al EXCEPT ![s] = @ + take], rem - take, capacity)
            ELSE FillLoop(Tail(order), al, rem, capacity)

InitCodes ==
    /\ kpc = "load"
    /\ avail \in [Strata -> RowCounts]
    /\ nat_counts \in [KnownStrata -> 1..CodesMaxNat]
    /\ sample_n = 0
    /\ alloc = [s \in Strata |-> 0]
    /\ remaining = 0
    /\ selected = [s \in Strata |-> 0]
    /\ flagged = 0

IdleCodes ==
    /\ kpc = "idle" /\ avail = <<>> /\ nat_counts = <<>> /\ sample_n = 0 /\ alloc = <<>>
    /\ remaining = 0 /\ selected = <<>> /\ flagged = 0

\* lines 119-152: sample_n, the national shares of the strata present, the base
\* counts clipped to the rows available, and what remains to allocate
CodesBase ==
    /\ kpc = "load"
    /\ LET n == SampleSize(RowTotal(avail))
           present == PresentKnown(avail)
           den == SumOver(nat_counts, present)
       IN /\ sample_n' = n
          /\ IF n > 0 /\ present # {}
             THEN \E floors \in [present -> 0..n] :
                     /\ \A s \in present :
                           floors[s] \in FloorOutcomes(nat_counts[s] * n, den)
                     /\ LET base == Clip(floors, avail) IN
                           /\ alloc' = [s \in Strata |->
                                           IF s \in present THEN base[s] ELSE 0]
                           /\ remaining' = n - SumOver(base, present)
             ELSE /\ alloc' = [s \in Strata |-> 0]
                  /\ remaining' = n
    /\ kpc' = "remainders"
    /\ UNCHANGED <<avail, nat_counts, selected, flagged>>
    /\ UNCHANGED notCodes

\* lines 144 and 154-160: the largest remainders get one more each
CodesRemainders ==
    /\ kpc = "remainders"
    /\ LET present == PresentKnown(avail)
           den == SumOver(nat_counts, present)
           remainders == [s \in present |-> nat_counts[s] * sample_n - alloc[s] * den]
       IN IF sample_n > 0 /\ present # {}
          THEN \E order \in DescendingOrders(present, remainders) :
                  LET l == RemainderLoop(order, alloc, remaining, avail) IN
                     /\ alloc' = l.alloc
                     /\ remaining' = l.remaining
          ELSE UNCHANGED <<alloc, remaining>>
    /\ kpc' = "fill"
    /\ UNCHANGED <<avail, nat_counts, sample_n, selected, flagged>>
    /\ UNCHANGED notCodes

\* lines 163-178: what is still missing is taken from UNKNOWN first, then from
\* the other strata by descending capacity
CodesFill ==
    /\ kpc = "fill"
    /\ LET withRows == {s \in Strata : avail[s] > 0}
           capacity == [s \in withRows |-> avail[s] - alloc[s]]
           first == IF Unknown \in withRows /\ capacity[Unknown] > 0
                    THEN <<Unknown>> ELSE <<>>
       IN IF remaining > 0
          THEN \E rest \in DescendingOrders(withRows \ {Unknown}, capacity) :
                  LET l == FillLoop(first \o rest, alloc, remaining, capacity) IN
                     /\ alloc' = l.alloc
                     /\ remaining' = l.remaining
          ELSE UNCHANGED <<alloc, remaining>>
    /\ kpc' = "sample"
    /\ UNCHANGED <<avail, nat_counts, sample_n, selected, flagged>>
    /\ UNCHANGED notCodes

\* lines 181-189: min(n_take, len(subset)) rows are drawn from every stratum
\* that has an allocation and rows
CodesSample ==
    /\ kpc = "sample"
    /\ selected' = [s \in Strata |->
                        IF alloc[s] <= 0 \/ avail[s] = 0 THEN 0
                        ELSE Min({alloc[s], avail[s]})]
    /\ kpc' = "exact"
    /\ UNCHANGED <<avail, nat_counts, sample_n, alloc, remaining, flagged>>
    /\ UNCHANGED notCodes

\* lines 192-204: the selection is cut to sample_n, or topped up from the rows
\* not selected, and the column is set
CodesExact ==
    /\ kpc = "exact"
    /\ LET count == SumOver(selected, Strata)
           others == RowTotal(avail) - count
       IN flagged' = IF count > sample_n THEN sample_n
                     ELSE IF count < sample_n /\ others > 0
                     THEN count + Min({sample_n - count, others})
                     ELSE count
    /\ kpc' = "done"
    /\ UNCHANGED <<avail, nat_counts, sample_n, alloc, remaining, selected>>
    /\ UNCHANGED notCodes

NextCodes == CodesBase \/ CodesRemainders \/ CodesFill \/ CodesSample \/ CodesExact

\* ------------------------------------------------------------------ specifications
IdleEarly ==
    IdleRange /\ IdleCont /\ IdleAuto /\ IdleGlue /\ IdleFix /\ IdleMain /\ IdleRerun
    /\ IdleInfer

IdleLate == IdleSplit /\ IdleScan /\ IdleCodes

StartRange == InitRange /\ IdleCont /\ IdleAuto /\ IdleGlue /\ IdleFix /\ IdleMain /\ IdleRerun
    /\ IdleInfer /\ IdleLate

StartCont == IdleRange /\ InitCont /\ IdleAuto /\ IdleGlue /\ IdleFix /\ IdleMain /\ IdleRerun
    /\ IdleInfer /\ IdleLate

StartAuto == IdleRange /\ IdleCont /\ InitAuto /\ IdleGlue /\ IdleFix /\ IdleMain /\ IdleRerun
    /\ IdleInfer /\ IdleLate

StartGlue == IdleRange /\ IdleCont /\ IdleAuto /\ InitGlue /\ IdleFix /\ IdleMain /\ IdleRerun
    /\ IdleInfer /\ IdleLate

StartFix == IdleRange /\ IdleCont /\ IdleAuto /\ IdleGlue /\ InitFix /\ IdleMain /\ IdleRerun
    /\ IdleInfer /\ IdleLate

StartMain == IdleRange /\ IdleCont /\ InitMain /\ IdleGlue /\ IdleFix /\ IdleRerun
    /\ IdleInfer /\ IdleLate

StartRerun == IdleRange /\ IdleCont /\ IdleAuto /\ InitRerun /\ IdleFix /\ IdleMain
    /\ IdleInfer /\ IdleLate

StartInfer ==
    IdleRange /\ IdleCont /\ IdleAuto /\ IdleGlue /\ IdleFix /\ IdleMain /\ IdleRerun
    /\ InitInfer /\ IdleLate

StartSplit == IdleEarly /\ InitSplit /\ IdleScan /\ IdleCodes

StartScan == IdleEarly /\ IdleSplit /\ InitScan /\ IdleCodes

StartCodes == IdleEarly /\ IdleSplit /\ IdleScan /\ InitCodes

SpecRange == StartRange /\ [][NextRange]_vars

SpecCont == StartCont /\ [][NextCont]_vars

SpecAuto == StartAuto /\ [][NextAuto]_vars

SpecGlue == StartGlue /\ [][NextGlue]_vars

SpecFix == StartFix /\ [][NextFix]_vars

SpecMain == StartMain /\ [][NextMain]_vars

SpecRerun == StartRerun /\ [][NextRerun]_vars

SpecInfer == StartInfer /\ [][NextInfer]_vars

SpecSplit == StartSplit /\ [][NextSplit]_vars

SpecScan == StartScan /\ [][NextScan]_vars

SpecCodes == StartCodes /\ [][NextCodes]_vars

\* ------------------------------------------------------------------ claims on range notation
StrictlyAscending(s) == \A i \in 1..(Len(s) - 1) : s[i] < s[i + 1]

Ascending(s) == \A i \in 1..(Len(s) - 1) : s[i] <= s[i + 1]

NonNegative(s) == \A i \in 1..Len(s) : s[i] >= 0

\* C1 as stated: for every non-empty strictly ascending list of integers (negative
\* ones included), expand_range_str(compress_ints(L)) returns exactly L.
C1_AnyIntegers ==
    (rpc = "roundtrip" /\ rNums # <<>> /\ StrictlyAscending(rNums))
        => rOut = [err |-> FALSE, val |-> rNums]

\* C1 amended: for every non-empty strictly ascending list of non-negative integers,
\* expand_range_str(compress_ints(L)) returns exactly L without raising.
C1_RoundTrip ==
    (rpc = "roundtrip" /\ rNums # <<>> /\ StrictlyAscending(rNums) /\ NonNegative(rNums))
        => rOut = [err |-> FALSE, val |-> rNums]

C1_Witness ==
    /\ rpc = "roundtrip"
    /\ Len(rNums) = 3 /\ StrictlyAscending(rNums) /\ NonNegative(rNums)
    /\ rNums[2] = rNums[1] + 1 /\ rNums[3] > rNums[2] + 1 /\ rNums[3] >= 10
    /\ rOut.val = rNums

\* the maximal runs of consecutive integers of a set, by their first members
RunStarts(S) == {a \in S : (a - 1) \notin S}

RunEnd(S, a) == Max({b \in S : b >= a /\ \A x \in a..b : x \in S})

RunsText(S) ==
    LET starts == SortedSet(RunStarts(S))
        piece(a) == IF RunEnd(S, a) > a
                    THEN FormatInt(a) \o <<"-">> \o FormatInt(RunEnd(S, a))
                    ELSE FormatInt(a)
    IN Join([i \in 1..Len(starts) |-> piece(starts[i])], ",")

ExampleText == <<"2", "-", "4", ",", "6", ",", "8", "-", "9">>

\* C5: for every list of integers (empty, unsorted, with duplicates) compress_ints
\* returns the comma-joined maximal runs of consecutive integers of the list's value
\* set in ascending order, a run of two or more as a-b and a singleton as a; the
\* empty list gives the empty string and [2,3,4,6,8,9] gives "2-4,6,8-9".
C5_MaximalRuns ==
    rpc \in {"compressed", "roundtrip"} =>
        /\ rStr = RunsText(Range(rNums))
        /\ rNums = <<>> => rStr = <<>>
        /\ rNums = ExampleList => rStr = ExampleText

C5_Witness ==
    /\ rpc = "compressed"
    /\ Len(rNums) = 3 /\ rNums[1] > rNums[2] /\ rNums[3] = rNums[1]
    /\ rNums[1] = rNums[2] + 1
    /\ rStr = FormatInt(rNums[2]) \o <<"-">> \o FormatInt(rNums[1])

\* token t of a range string covers the integer n
Covers(t, n) ==
    \/ t = FormatInt(n)
    \/ \E a \in 0..n, b \in n..MaxTokInt : t = FormatInt(a) \o <<"-">> \o FormatInt(b)

\* C6 as stated: for every well-formed range string expand_range_str returns an
\* ascending list of integers covering every token; the empty string gives the
\* empty list.
C6_AscendingCover ==
    rpc \in {"expanded", "recompressed"} =>
        /\ ~rOut.err
        /\ Ascending(rOut.val)
        /\ \A n \in 0..MaxTokInt :
               (\E i \in 1..Len(Split(rStr, ",")) : Covers(Split(rStr, ",")[i], n))
                   => n \in Range(rOut.val)
        /\ rStr = <<>> => rOut.val = <<>>

\* lowest and highest integer of a well-formed token
TokLo(t) == IF Contains(t, "-") THEN ParseInt(SplitOnce(t, "-")[1]).val ELSE ParseInt(t).val

TokHi(t) == IF Contains(t, "-") THEN ParseInt(SplitOnce(t, "-")[2]).val ELSE ParseInt(t).val

\* a range string in the form compress_ints writes: every range has a < b, and each
\* token starts at least two above the end of the token before it
Canonical(s) ==
    \/ s = <<>>
    \/ LET ts == Split(s, ",") IN
       /\ \A i \in 1..Len(ts) : Contains(ts[i], "-") => TokLo(ts[i]) < TokHi(ts[i])
       /\ \A i \in 1..(Len(ts) - 1) : TokHi(ts[i]) + 1 < TokLo(ts[i + 1])

\* C7 as stated: for every well-formed range string s,
\* compress_ints(expand_range_str(s)) = s.
C7_InverseOnAnyString == rpc = "recompressed" => rBack = rStr

\* C7 amended: for every well-formed range string s in the form compress_ints
\* writes (tokens ascending, each starting at least two above the end of the one
\* before, a < b in every range), compress_ints(expand_range_str(s)) = s.
C7_InverseOnCanonical == (rpc = "recompressed" /\ Canonical(rStr)) => rBack = rStr

C7_Witness ==
    /\ rpc = "recompressed"
    /\ Canonical(rStr)
    /\ Len(Split(rStr, ",")) = 2
    /\ Contains(rStr, "-")
    /\ rBack = rStr


\* ------------------------------------------------------------------ claims on continuation windows
\* C2: continuation_scenes returns the empty list when existing is empty or
\* max_scene is absent; otherwise exactly the ascending list of the members of
\* existing in [base+1, end], end being next_base-1 when next_base is present and
\* max_scene otherwise; nothing outside existing is ever returned.
C2_Window ==
    cpc = "returned" =>
        /\ IF cExisting = {} \/ cMax = None THEN cOut = <<>>
           ELSE LET end == IF cNext # None THEN cNext[1] - 1 ELSE cMax[1] IN
                cOut = SortedSet({n \in cExisting : cBase + 1 <= n /\ n <= end})
        /\ Range(cOut) \subseteq cExisting

C2_Witness ==
    /\ cpc = "returned"
    /\ cNext # None /\ cMax # None
    /\ Len(cOut) >= 2
    /\ \E n \in (cBase + 1)..(cNext[1] - 1) : n \notin cExisting
    /\ \E n \in cExisting : n >= cNext[1]

\* C3: within one institution the continuation lists of two different clip rows
\* never share a scene number, duplicate base numbers included.
C3_Disjoint ==
    \A i \in 1..Len(cont_lists), j \in 1..Len(cont_lists) :
        i # j => Range(cont_lists[i]) \cap Range(cont_lists[j]) = {}

C3_Witness ==
    /\ apc = "glue_written"
    /\ Len(cont_lists) >= 2
    /\ cont_lists[1] # <<>> /\ cont_lists[2] # <<>>

\* C4: the screenshot of base is chosen whenever it exists, whatever the
\* continuation list; otherwise the screenshot of the smallest continuation scene
\* if it exists; otherwise none, also when later continuation scenes have a
\* screenshot; a path that does not exist is never chosen.
C4_ImageChoice ==
    \A i \in 1..Len(img_paths) :
        LET b == bases[i]
            c == cont_lists[i]
            img == img_paths[i]
        IN /\ b \in aShots => img = <<b>>
           /\ (b \notin aShots /\ c # <<>> /\ Min(Range(c)) \in aShots)
                  => img = <<Min(Range(c))>>
           /\ (b \notin aShots /\ (c = <<>> \/ Min(Range(c)) \notin aShots)) => img = <<>>
           /\ img # <<>> => img[1] \in aShots

C4_Witness ==
    \E i \in 1..Len(img_paths) :
        /\ bases[i] \notin aShots
        /\ Len(cont_lists[i]) >= 2
        /\ cont_lists[i][1] \notin aShots
        /\ cont_lists[i][2] \in aShots
        /\ img_paths[i] = <<>>

\* C22: once the rows of an institution with at least one scene on disk are done,
\* every scene on disk above the smallest base that is no base itself is in the
\* continuation list of exactly one row, whose base is the largest base below the
\* scene; a scene on disk below the smallest base is in no continuation list.
C22_Coverage ==
    (apc = "glue_written" /\ aDisk # {}) =>
        \A n \in aDisk :
            LET owners == {i \in 1..Len(cont_lists) : n \in Range(cont_lists[i])}
                smallest == Min(Range(aRows))
            IN /\ (n > smallest /\ n \notin Range(aRows)) =>
                     /\ Cardinality(owners) = 1
                     /\ \A i \in owners :
                           /\ bases[i] = Max({b \in Range(aRows) : b < n})
                           /\ Cardinality({j \in 1..Len(cont_lists[i]) :
                                               cont_lists[i][j] = n}) = 1
               /\ n < smallest => owners = {}

C22_Witness ==
    /\ apc = "glue_written"
    /\ Len(bases) = 2 /\ bases[1] + 1 < bases[2]
    /\ \E n \in aDisk : n < bases[1]
    /\ cont_lists[1] # <<>>
    /\ bases[2] \notin aDisk

\* ------------------------------------------------------------------ claims on glue.csv as written
\* C13: write_glue_csv writes a headerless file with exactly one line per clip row,
\* in ascending base order: the line is the base alone when the row's continuation
\* list is empty, and the base, a comma and compress_ints of the continuation list
\* otherwise; expanding the part after the first comma returns the continuation list.
C13_GlueLines ==
    apc = "glue_written" =>
        /\ Len(aGlue) = Len(aRows)
        /\ \A i \in 1..Len(aGlue) :
              LET line == aGlue[i]
                  cont == cont_lists[i]
              IN /\ line[1] \in Range(Digits)
                 /\ cont = <<>> => line = FormatInt(SortValues(aRows)[i])
                 /\ cont # <<>> =>
                       /\ Contains(line, ",")
                       /\ SplitOnce(line, ",")[1] = FormatInt(SortValues(aRows)[i])
                       /\ SplitOnce(line, ",")[2] = compress_ints(cont)
                       /\ expand_range_str(SplitOnce(line, ",")[2])
                              = [err |-> FALSE, val |-> cont]
        /\ \A i \in 1..(Len(aGlue) - 1) :
              ParseInt(Split(aGlue[i], ",")[1]).val <= ParseInt(Split(aGlue[i + 1], ",")[1]).val

C13_Witness ==
    /\ apc = "glue_written"
    /\ Len(aGlue) = 2
    /\ aRows[1] > aRows[2]
    /\ ~Contains(aGlue[1], ",")
    /\ Contains(aGlue[2], ",") /\ Contains(aGlue[2], "-")

\* C14 as stated: every line write_glue_csv writes is read by glue.py without error
\* as the destination followed by exactly the scene numbers of the row's
\* continuation list.
C14_GlueReadsWrittenLines ==
    apc = "glue_written" =>
        \A i \in 1..Len(aGlue) :
            ParseRow(csv_row(aGlue[i])) = [err |-> FALSE, val |-> <<bases[i]>> \o cont_lists[i]]

\* C18: when two consecutive clip rows of an institution have the same base, the
\* continuation list of the earlier one is empty (and the row loop goes on).
C18_DuplicateBase ==
    \A i \in 1..Len(cont_lists) :
        (i < Len(bases) /\ bases[i] = bases[i + 1]) => cont_lists[i] = <<>>

C18_Witness ==
    /\ apc = "glue_written"
    /\ Len(bases) = 2 /\ bases[1] = bases[2]
    /\ (bases[1] + 1) \in existing_set
    /\ cont_lists[1] = <<>> /\ cont_lists[2] # <<>>

\* ------------------------------------------------------------------ claims on a whole run of main
\* the analyses written so far are those of the first n institutions, one frame each
FramesWritten(n) ==
    /\ Len(out_frames) = n
    /\ \A k \in 1..n : out_frames[k].institution_domain = Domains[k]

\* C15: when the labeling request of a clip row raises or times out, the label of
\* the row is a string starting with ERROR:, main is back in its row loop (nothing
\* escapes), and the run ends with every row of every institution written.
C15_ErrorLabel ==
    /\ caught # None =>
          /\ llm_outputs # <<>>
          /\ StartsWith(llm_outputs[Len(llm_outputs)], ErrorPrefix)
          /\ apc \in {"glue_written", "request", "domain", "done"}
    /\ (apc = "domain" /\ domain >= 1) =>
          /\ FramesWritten(domain)
          /\ out_frames[domain].llm_output = llm_outputs
          /\ Len(llm_outputs) = Len(aRows)
          /\ domain < Len(Domains) => ENABLED NextDomain
    /\ apc = "done" =>
          /\ FramesWritten(Len(Domains))
          /\ out_xlsx = out_frames[1].llm_output \o out_frames[2].llm_output

C15_Witness ==
    /\ apc = "done"
    /\ Len(out_frames[1].llm_output) = 2
    /\ StartsWith(out_frames[1].llm_output[1], ErrorPrefix)
    /\ out_frames[1].llm_output[2] \in Replies
    /\ out_frames[2].llm_output[1] \in Replies

\* C16: a clip row without a representative image gets the empty label and no
\* labeling request is sent for it; the rows after it are labelled and the
\* institution's analysis is written with a label for every row.
C16_NoImageNoRequest ==
    /\ ~no_llm =>
          \A i \in 1..Len(llm_outputs) :
              IF img_paths[i] = None \/ img_paths[i][1] \notin aShots
              THEN llm_outputs[i] = <<>>
              ELSE llm_outputs[i] # <<>>
    /\ outstanding # {} =>
          /\ Len(llm_outputs) < Len(bases)
          /\ img_paths[Len(llm_outputs) + 1] # None
          /\ img_paths[Len(llm_outputs) + 1][1] \in aShots
    /\ apc \in {"domain", "done"} => Len(llm_outputs) = Len(aRows)

C16_Witness ==
    /\ apc = "domain"
    /\ ~no_llm
    /\ Len(bases) = 2
    /\ img_paths[1] = None /\ llm_outputs[1] = <<>>
    /\ img_paths[2] # None /\ llm_outputs[2] \in Replies

\* C17: when the scenes directory of an institution does not exist, every clip row
\* gets the empty continuation list, no image and the empty label, no request is
\* sent, the glue file holds the bare base of every row, the analysis is written
\* and the run goes on to the next institution.
C17_MissingScenesDir ==
    (domain >= 1 /\ ~aIsDir) =>
        /\ \A i \in 1..Len(cont_lists) : cont_lists[i] = <<>> /\ img_paths[i] = None
        /\ \A i \in 1..Len(llm_outputs) : llm_outputs[i] = <<>>
        /\ outstanding = {}
        /\ apc \in {"glue_written", "domain", "done"} =>
              aGlue = [i \in 1..Len(aRows) |-> FormatInt(SortValues(aRows)[i])]
        /\ apc \in {"domain", "done"} =>
              /\ Len(out_frames) = domain
              /\ out_frames[domain].llm_output = [i \in 1..Len(aRows) |-> <<>>]
        /\ (apc = "domain" /\ domain < Len(Domains)) => ENABLED NextDomain
        /\ (apc = "domain" /\ domain = Len(Domains)) => ENABLED Consolidate

C17_Witness ==
    /\ apc = "domain"
    /\ domain = 1 /\ ~aIsDir /\ ~no_llm
    /\ Len(aRows) = 2
    /\ Len(aGlue) = 2 /\ Len(llm_outputs) = 2

\* C26: in every branch (labeling disabled, image missing, request failed, request
\* answered) the lists of an institution are filled in step, and when its analysis
\* is written bases, continuation lists, continuation strings, image paths and
\* labels all have one entry per clip row, entry i of each being that of row i.
C26_ListsAligned ==
    /\ Len(cont_strs) = Len(cont_lists) /\ Len(img_paths) = Len(cont_lists)
    /\ Len(cont_lists) <= Len(bases) /\ Len(llm_outputs) <= Len(bases)
    /\ (no_llm /\ llm_outputs # <<>>) => Len(llm_outputs) = Len(bases)
    /\ \A i \in 1..Len(cont_lists) :
          /\ cont_lists[i] = continuation_scenes(existing_set, bases[i], next_bases[i],
                                                 max_scene)
          /\ cont_strs[i] = compress_ints(cont_lists[i])
          /\ img_paths[i] = choose_image_for_clip(aShots, bases[i], cont_lists[i])
    /\ \A i \in 1..Len(llm_outputs) :
          /\ i <= Len(img_paths)
          /\ (no_llm \/ img_paths[i] = None) => llm_outputs[i] = <<>>
          /\ (~no_llm /\ img_paths[i] # None) =>
                (llm_outputs[i] \in Replies \/ StartsWith(llm_outputs[i], ErrorPrefix))
    /\ (apc \in {"domain", "done"} /\ domain >= 1) =>
          /\ bases = SortValues(aRows)
          /\ Len(cont_lists) = Len(aRows)
          /\ Len(llm_outputs) = Len(aRows)
          /\ out_frames[domain].llm_output = llm_outputs

C26_Witness ==
    /\ apc = "domain"
    /\ ~no_llm
    /\ Len(aRows) = 2
    /\ img_paths[1] = None /\ llm_outputs[1] = <<>>
    /\ cont_lists[2] # <<>> /\ cont_strs[2] # <<>>
    /\ img_paths[2] # None /\ StartsWith(llm_outputs[2], ErrorPrefix)

GlueRowDone == gRead' = gRead + 1 /\ gRc' # None

\* C8: when the concatenation tool returns nonzero for a glue record, no scene
\* video file is deleted: the scene files on disk are the same as before the
\* record was processed.
C8_FailureKeepsFiles == [][(GlueRowDone /\ gRc'[1] # 0) => gDisk' = gDisk]_vars

C8_Witness ==
    /\ gRc # None /\ gRc[1] # 0
    /\ \E i \in 2..Len(scene_numbers) :
          scene_numbers[i] # scene_numbers[1] /\ scene_numbers[i] \in gDisk

Sources(row) == {n \in Range(ParseRow(row).val) : n # ParseRow(row).val[1]}

\* no source of a record is the destination of a record, as in the files
\* write_glue_csv writes
NoSourceIsDestination(rows) ==
    \A i \in 1..Len(rows), j \in 1..Len(rows) : ParseRow(rows[j]).val[1] \notin Sources(rows[i])

\* a row is applied by the second run, which reads the records the first run read,
\* none of whose concatenations failed
SecondRunStep == gRun = 2 /\ gRead' = gRead + 1 /\ ~gFirstFailed

\* C11 as stated: for any glue records, a second run after a fully successful
\* first run finds no source file of a record, deletes nothing, recreates nothing
\* and leaves the scene files the first run left.
C11_SecondRunNoOp ==
    [][SecondRunStep =>
          /\ Listed(gDisk, scene_numbers') \subseteq {scene_numbers'[1]}
          /\ gDisk' = gDisk
          /\ gDisk' = gAfterFirst]_vars

\* C11 amended: for glue records none of whose sources is the destination of a
\* record, a second run after a fully successful first run finds no source file of
\* a record, deletes nothing, recreates nothing and leaves the scene files the
\* first run left.
C11_SecondRunNoOpOnResolverRecords ==
    [][(SecondRunStep /\ NoSourceIsDestination(glue_csv)) =>
          /\ Listed(gDisk, scene_numbers') \subseteq {scene_numbers'[1]}
          /\ gDisk' = gDisk
          /\ gDisk' = gAfterFirst]_vars

C11_Witness ==
    /\ gpc = "done" /\ gRun = 2 /\ ~gFirstFailed
    /\ Len(glue_csv) = 2 /\ gRead = 2
    /\ NoSourceIsDestination(glue_csv)
    /\ Sources(glue_csv[1]) # {}
    /\ gRc = Some(0)
    /\ gDisk = gAfterFirst

\* C20 as stated: once glue.py has consumed the glue records they are cleared, so
\* a later run of glue.py finds no record to apply.
C20_RecordsCleared == gRun = 2 => glue_csv = <<>>

\* ------------------------------------------------------------------ claims on several institutions
\* C12 as stated: the working set of an institution comes only from that
\* institution: the length in every row emitted for a domain is made of lengths
\* read from that domain's own videos, never of a value read for another domain.
C12_OwnWorkingSet ==
    \A k \in 1..Len(data) :
        \A j \in 1..Len(data[k].length) : data[k].length[j][1] = data[k].domain

\* ------------------------------------------------------------------ claims on inference.py
\* the scene numbers a glue line names after its destination, read as autocode.py
\* reads the compressed string it wrote into the line
LineSources(row) == Range(expand_range_str(Join(Tail(row), ",")).val)

\* the run stopped in the glue reader: no image of the domain was looked at yet
ReaderCrash == ipc = "crashed" /\ iSeen = {}

\* the run stopped on a length missing from video_timestamps
KeyErrorCrash ==
    /\ ipc = "crashed" /\ iSeen # {}
    /\ \E t \in Range(LengthTerms(glue_stick, Max(iSeen))) :
          t \notin DOMAIN video_timestamps

\* C24 as stated: every well-formed glue line is read into the glue map without
\* error; a line of a destination alone maps it to no sources, a line with a
\* compressed range maps it to exactly the scene numbers of all its tokens.
C24_WellFormedLinesRead ==
    (iSite >= 1 /\ iSeen = {} /\ ipc \in {"timestamps", "crashed"}) =>
        /\ ~ReaderCrash
        /\ \A k \in 1..Len(iGlue) :
              (\A j \in (k + 1)..Len(iGlue) : iGlue[j][1] # iGlue[k][1]) =>
                 \E i \in 1..Len(glue_stick) :
                    /\ glue_stick[i].key.text = iGlue[k][1]
                    /\ Range(glue_stick[i].values) = LineSources(iGlue[k])

\* the first domain as glue.py leaves it after merging every record of the glue
\* file: the destination and its screenshot are there, the sources are gone
MergedWorld ==
    /\ iSite = 1 /\ ipc # "done"
    /\ iGlue # <<>>
    /\ \A k \in 1..Len(iGlue) :
          /\ ~ParseRow(iGlue[k]).err
          /\ Sources(iGlue[k]) # {}
          /\ ParseRow(iGlue[k]).val[1] \in iVideos \cap iImages
          /\ Sources(iGlue[k]) \cap iVideos = {}

\* C23 as stated: after glue.py has merged a glue record, inference.py run with the
\* same glue file completes without error and emits exactly one row for the
\* destination scene.
C23_MergedRecordRuns ==
    MergedWorld =>
        /\ ~KeyErrorCrash
        /\ (ipc = "site" /\ iSeen = iImages) =>
              \A k \in 1..Len(iGlue) :
                 Cardinality({r \in 1..Len(data) :
                                 data[r].scene = ParseRow(iGlue[k]).val[1]}) = 1

\* C25 as stated: a screenshot the run has passed has exactly one output row,
\* unless its scene is listed as a source of some glue record, and then it has none.
C25_OneRowPerScreenshot ==
    (iSite >= 1 /\ ipc \in {"images", "site", "crashed"} /\ ~ReaderCrash
       /\ (ipc = "crashed" => KeyErrorCrash)) =>
        \A n \in iSeen :
            LET rows == {r \in 1..Len(data) : data[r].domain = iSite /\ data[r].scene = n}
                source == \E k \in 1..Len(iGlue) : n \in LineSources(iGlue[k])
            IN Cardinality(rows) = (IF source THEN 0 ELSE 1)

\* ------------------------------------------------------------------ claims on split.py
\* the files process_video has just written for the video it was given
Written == {n \in DOMAIN sScenes : sScenes[n].of = sFile}

\* where a scene file ends in the video
CutEnd(cut) == IF cut.to = None THEN VideoDuration ELSE cut.to[1]

\* C27: for boundaries t_1 < ... < t_k process_video writes exactly the scene
\* files 1..k+1; scene i <= k runs from t_(i-1) to t_i with t_0 = 0, scene k+1
\* from t_k to the end, so that consecutive scenes are contiguous and cover the
\* video from 0 to its end; for k = 0 the only scene is a copy of the whole video.
C27_ContiguousScenes ==
    spc \in {"split", "subsplit"} =>
        LET k == Len(timestamps)
            t(i) == IF i = 0 THEN 0 ELSE timestamps[i]
        IN /\ Written = 1..(k + 1)
           /\ \A i \in 1..k :
                 /\ sScenes[i].ss = t(i - 1) /\ sScenes[i].to = Some(t(i))
                 /\ ~sScenes[i].copy
                 /\ CutEnd(sScenes[i]) = sScenes[i + 1].ss
           /\ sScenes[1].ss = 0
           /\ sScenes[k + 1].ss = t(k)
           /\ CutEnd(sScenes[k + 1]) = VideoDuration
           /\ sScenes[k + 1].copy <=> k = 0

C27_Witness ==
    /\ spc = "split"
    /\ Len(timestamps) = 2
    /\ Written = {1, 2, 3}
    /\ sScenes[2].ss = timestamps[1] /\ sScenes[2].to = Some(timestamps[2])

\* C28 as stated: when the operation is neither "append" nor "rewrite" the script
\* quits after the message: no scenes directory is removed or made and no video
\* is split.
C28_InvalidOperationQuits ==
    (script = "split" /\ operation \notin {"append", "rewrite"}) => sDone = {}

\* ------------------------------------------------------------------ claims on scan.py
\* C29 as stated: a file exists at the video path of an institution only if its
\* download completed; after a failed attempt no file is left there, so that a
\* later run downloads again and does not skip the institution.
C29_OnlyCompleteFiles ==
    \A i \in 1..Len(nFiles) :
        (nFiles[i] # None /\ ~(npc = "stream" /\ nRow = i)) =>
            nFiles[i][1].written = nFiles[i][1].total

\* ------------------------------------------------------------------ claims on second_codes.py
\* C30: for every number of rows N and every distribution of the rows over the
\* strata, the rows flagged Second Coder = True number exactly ceil(0.10 * N), and
\* the count allocated to a stratum never exceeds the rows it holds.
C30_ExactTenPercent ==
    /\ kpc # "idle" =>
          \A s \in Strata : alloc[s] <= avail[s] /\ selected[s] <= avail[s]
    /\ kpc = "done" =>
          /\ 10 * flagged >= RowTotal(avail)
          /\ 10 * (flagged - 1) < RowTotal(avail)

C30_Witness ==
    /\ kpc = "done"
    /\ flagged = 3
    /\ \E s \in KnownStrata :
          /\ avail[s] = 1 /\ alloc[s] = 1
          /\ 2 * nat_counts[s] > SumOver(nat_counts, KnownStrata)
    /\ alloc[Unknown] > 0
    /\ \A s \in Strata : avail[s] > 0

\* ------------------------------------------------------------------ claims on splitfix.py
\* C21 as stated: when the folder of a configured site does not exist the run
\* aborts with the message: after it no further site is processed and the
\* completion message is not printed.
C21_NoFolderAborts ==
    \A i \in 1..Len(fLog) :
        fLog[i] = NoFolder =>
            \A j \in (i + 1)..Len(fLog) : fLog[j] \notin {Processing, Complete}

\* C9: when the concatenation run by merge_files fails, the source scene files
\* passed to the merge and their screenshots are preserved on disk.
C9_FailureKeepsSources ==
    [][(fCount' = fCount + 1 /\ fRc' # None /\ fRc'[1] # 0) =>
          \A n \in Range(fProc') :
              /\ n \in fDisk => n \in fDisk'
              /\ n \in fShots => n \in fShots']_vars

====
